---- MODULE Spec2Model ----
(***************************************************************************)
(* A model of splat-transform: the DataTable operations, the table         *)
(* combine step, the processDataTable action loop, the command line        *)
(* parser and the main read / process / combine / write pipeline.          *)
(*                                                                         *)
(* A column is a record [name, dataType, data]; a DataTable is the         *)
(* sequence of its columns.  A cell value is a record [k, v]: k = "num"    *)
(* is the finite number v, k = "inf" is +Infinity (v = 1) or -Infinity     *)
(* (v = -1), k = "nan" is NaN and k = "undef" is the JavaScript undefined  *)
(* obtained by reading a property a row object does not have.              *)
(***************************************************************************)
EXTENDS Integers, Sequences, FiniteSets, TLC

VARIABLES
    cDataTables,    \* combine: the list of input tables
    cResult,        \* combine: the returned table
    cPc,            \* combine: "idle" | "start" | "done"
    pDataTable,     \* processDataTable: the dataTable parameter
    pResult,        \* processDataTable: the local `result`
    pPrev,          \* processDataTable: `result` before the last handled action
    pLast,          \* processDataTable: the last handled action
    mTokens,        \* main: the command line tokens
    mOverwrite,     \* main: options.overwrite
    mFiles,         \* main: files returned by parseArguments
    mPc,            \* main: position of the main function
    mExit,          \* main: exit code (-1 while running)
    mTask,          \* main: state of each input's async task
    mTable,         \* main: each input's table
    mApplied,       \* main: per file, the kinds of the actions processDataTable ran
    mCombined,      \* main: the tables handed to combine, and the combined table
    mFs,            \* main: the file system (output, temporary and image pathnames)
    mHandles,       \* main: the file handles that are open
    mOther,         \* main: whether the other party has created the output file
    ply,            \* PLY files: the table, the file written, the data read back
    sog,            \* writeSog: the table, the position in writeSog, the files written
    zip,            \* ZipReader: the archive, the entries listed, the data read
    dt,             \* DataTable: the columns of a table under construction
    ord,            \* generateOrdering: the table and the indices returned
    km,             \* kmeans: the points, the centroids, the labels, the steps taken
    cl,             \* cluster assignment: the points, the centroids, each backend's labels
    spz,            \* readSpz: the file read and the table returned
    proc            \* process: the table passed in, the result so far, the actions run

combineVars == <<cDataTables, cResult, cPc>>
processVars == <<pDataTable, pResult, pPrev, pLast>>
mainVars == <<mTokens, mOverwrite, mFiles, mPc, mExit, mTask, mTable, mApplied, mCombined, mFs, mHandles, mOther>>
vars == <<cDataTables, cResult, cPc, pDataTable, pResult, pPrev, pLast,
          mTokens, mOverwrite, mFiles, mPc, mExit, mTask, mTable, mApplied, mCombined, mFs, mHandles, mOther,
          ply, sog, zip, dt, ord, km, cl, spz, proc>>

\* the state of the functions that are specified on their own
unitVars == <<ply, sog, zip, dt, ord, km, cl, spz, proc>>

----------------------------------------------------------------------------
(* Bounds *)

MaxTables == 3      \* most tables handed to combine
MaxRows == 2        \* most rows of a generated table

----------------------------------------------------------------------------
(* The parts of the state that are not in use: each specification below     *)
(* runs one of combine, processDataTable and main, the others stay idle.    *)

CombineIdle == cDataTables = <<>> /\ cResult = <<>> /\ cPc = "idle"

PlyIdle == ply = [pc |-> "idle"]

SogIdle == sog = [pc |-> "idle"]

ZipIdle == zip = [pc |-> "idle"]

TableIdle == dt = [pc |-> "idle"]

OrderingIdle == ord = [pc |-> "idle"]

KmeansIdle == km = [pc |-> "idle"]

ClusterIdle == cl = [pc |-> "idle"]

SpzIdle == spz = [pc |-> "idle"]

ProcIdle == proc = [pc |-> "idle"]

UnitsIdle ==
    /\ PlyIdle /\ SogIdle /\ ZipIdle /\ TableIdle /\ OrderingIdle
    /\ KmeansIdle /\ ClusterIdle /\ SpzIdle /\ ProcIdle

MainIdle ==
    /\ mTokens = <<>> /\ mOverwrite = FALSE /\ mFiles = <<>> /\ mPc = "idle"
    /\ mExit = -1 /\ mTask = <<>> /\ mTable = <<>> /\ mApplied = <<>>
    /\ mCombined = <<>> /\ mFs = [out |-> "absent", tmp |-> "absent", sib |-> "absent"]
    /\ mHandles = {} /\ mOther = FALSE

ProcessIdle ==
    /\ pDataTable = <<>> /\ pResult = <<>> /\ pPrev = <<>>
    /\ pLast = [kind |-> "idle", columnName |-> "", comparator |-> "",
                value |-> [k |-> "num", v |-> 0]]

----------------------------------------------------------------------------
(* Cell values *)

Num(n) == [k |-> "num", v |-> n]
NaN == [k |-> "nan", v |-> 0]
PInf == [k |-> "inf", v |-> 1]
NInf == [k |-> "inf", v |-> -1]
Undefined == [k |-> "undef", v |-> 0]

\* JavaScript isFinite(ToNumber(v))
isFinite(v) == v.k = "num"

\* JavaScript a < b on numbers (undefined converts to NaN, NaN compares false)
Lt(a, b) ==
    /\ a.k \in {"num", "inf"}
    /\ b.k \in {"num", "inf"}
    /\ IF a.k = "inf" /\ b.k = "inf" THEN a.v < b.v
       ELSE IF a.k = "inf" THEN a.v < 0
       ELSE IF b.k = "inf" THEN b.v > 0
       ELSE a.v < b.v

\* JavaScript a === b
StrictEq(a, b) == a.k \in {"num", "inf"} /\ a = b

----------------------------------------------------------------------------
(* DataTable *)

Col(name, dataType, data) == [name |-> name, dataType |-> dataType, data |-> data]

numRows(t) == Len(t[1].data)

columnNames(t) == [j \in 1..Len(t) |-> t[j].name]

hasColumn(t, name) == \E j \in 1..Len(t) : t[j].name = name

\* the row dictionary getRow fills: row[name] for a name that is not a column
\* reads as undefined (with two columns of one name the later one wins)
getRow(t, i, name) ==
    IF hasColumn(t, name)
    THEN t[CHOOSE j \in 1..Len(t) :
              t[j].name = name /\ \A l \in (j+1)..Len(t) : t[l].name # name].data[i]
    ELSE Undefined

\* a new table whose row j copies source row indices[j]
permuteRows(t, indices) ==
    [c \in 1..Len(t) |->
        Col(t[c].name, t[c].dataType,
            [j \in 1..Len(indices) |-> t[c].data[indices[j]]])]

\* constructor check: at least one column, all columns of one length
ValidTable(t) ==
    /\ Len(t) > 0
    /\ \A j \in 1..Len(t) : Len(t[j].data) = Len(t[1].data)

----------------------------------------------------------------------------
(* combine *)

findMatchingColumnNameOnly(columns, column) ==
    IF \E i \in 1..Len(columns) : columns[i].name = column.name
    THEN CHOOSE i \in 1..Len(columns) :
            /\ columns[i].name = column.name
            /\ \A l \in 1..(i-1) : columns[l].name # column.name
    ELSE 0

\* index of the first column of equal name and dataType, 0 for null
findMatchingColumn(columns, column) ==
    IF \E i \in 1..Len(columns) :
          columns[i].name = column.name /\ columns[i].dataType = column.dataType
    THEN CHOOSE i \in 1..Len(columns) :
            /\ columns[i].name = column.name /\ columns[i].dataType = column.dataType
            /\ \A l \in 1..(i-1) :
                  ~(columns[l].name = column.name /\ columns[l].dataType = column.dataType)
    ELSE 0

RECURSIVE FlattenColumns(_)
FlattenColumns(tables) ==
    IF tables = <<>> THEN <<>> ELSE Head(tables) \o FlattenColumns(Tail(tables))

\* the loop that pushes every column without a match onto `columns`
RECURSIVE pushUnique(_, _)
pushUnique(columns, rest) ==
    IF rest = <<>> THEN columns
    ELSE pushUnique(IF findMatchingColumn(columns, Head(rest)) = 0
                    THEN Append(columns, Head(rest)) ELSE columns,
                    Tail(rest))

uniqueColumns(dataTables) ==
    pushUnique(dataTables[1], FlattenColumns(Tail(dataTables)))

RECURSIVE totalRows(_)
totalRows(dataTables) ==
    IF dataTables = <<>> THEN 0
    ELSE numRows(Head(dataTables)) + totalRows(Tail(dataTables))

\* TypedArray.prototype.set(source, offset)
arraySet(target, source, offset) ==
    [r \in 1..Len(target) |->
        IF r > offset /\ r <= offset + Len(source) THEN source[r - offset] ELSE target[r]]

\* the inner loop over j: copy every column of dataTable at rowOffset
RECURSIVE copyColumns(_, _, _, _)
copyColumns(result, dataTable, j, rowOffset) ==
    IF j > Len(dataTable) THEN result
    ELSE LET t == findMatchingColumn(result, dataTable[j])
         IN copyColumns([result EXCEPT ![t].data = arraySet(@, dataTable[j].data, rowOffset)],
                        dataTable, j + 1, rowOffset)

RECURSIVE copyDataNoAdvance(_, _, _)
copyDataNoAdvance(result, dataTables, rowOffset) ==
    IF dataTables = <<>> THEN result
    ELSE copyDataNoAdvance(copyColumns(result, Head(dataTables), 1, rowOffset),
                           Tail(dataTables), rowOffset)

\* the outer loop over i, advancing rowOffset by each table's numRows
RECURSIVE copyData(_, _, _)
copyData(result, dataTables, rowOffset) ==
    IF dataTables = <<>> THEN result
    ELSE copyData(copyColumns(result, Head(dataTables), 1, rowOffset),
                  Tail(dataTables), rowOffset + numRows(Head(dataTables)))

combine(dataTables) ==
    IF Len(dataTables) = 1 THEN dataTables[1]
    ELSE LET columns == uniqueColumns(dataTables)
             total == totalRows(dataTables)
             resultColumns ==
                 [j \in 1..Len(columns) |->
                     Col(columns[j].name, columns[j].dataType, [r \in 1..total |-> Num(0)])]
         IN copyData(resultColumns, dataTables, 0)

----------------------------------------------------------------------------
(* Specification of combine: the input lists are drawn from small tables    *)
(* whose cells carry a tag naming their table, column and row.              *)

ColumnKeys == {<<"x", "float32">>, <<"x", "uint8">>, <<"y", "float32">>}

Schemas ==
    {<<a>> : a \in ColumnKeys} \cup
    {s \in {<<a, b>> : a \in ColumnKeys, b \in ColumnKeys} : s[1][1] # s[2][1]}

\* a typed array stores what its element type can hold
Store(dataType, n) == IF dataType = "uint8" THEN Num(n % 256) ELSE Num(n)

MakeTable(schema, n, k) ==
    [j \in 1..Len(schema) |->
        Col(schema[j][1], schema[j][2],
            [r \in 1..n |-> Store(schema[j][2], 50 * k + 10 * j + r)])]

InitCombine ==
    /\ \E n \in 1..MaxTables :
         \E schemas \in [1..n -> Schemas], rows \in [1..n -> 1..MaxRows] :
            cDataTables = [k \in 1..n |-> MakeTable(schemas[k], rows[k], k)]
    /\ cResult = <<>>
    /\ cPc = "start"
    /\ ProcessIdle /\ MainIdle /\ UnitsIdle

Combine ==
    /\ cPc = "start"
    /\ cResult' = combine(cDataTables)
    /\ cPc' = "done"
    /\ UNCHANGED cDataTables
    /\ UNCHANGED <<processVars, mainVars, unitVars>>

----------------------------------------------------------------------------
(* processDataTable *)

shNames ==
    << "f_rest_0", "f_rest_1", "f_rest_2", "f_rest_3", "f_rest_4",
       "f_rest_5", "f_rest_6", "f_rest_7", "f_rest_8", "f_rest_9",
       "f_rest_10", "f_rest_11", "f_rest_12", "f_rest_13", "f_rest_14",
       "f_rest_15", "f_rest_16", "f_rest_17", "f_rest_18", "f_rest_19",
       "f_rest_20", "f_rest_21", "f_rest_22", "f_rest_23", "f_rest_24",
       "f_rest_25", "f_rest_26", "f_rest_27", "f_rest_28", "f_rest_29",
       "f_rest_30", "f_rest_31", "f_rest_32", "f_rest_33", "f_rest_34",
       "f_rest_35", "f_rest_36", "f_rest_37", "f_rest_38", "f_rest_39",
       "f_rest_40", "f_rest_41", "f_rest_42", "f_rest_43", "f_rest_44" >>

Act(kind, columnName, comparator, value) ==
    [kind |-> kind, columnName |-> columnName, comparator |-> comparator, value |-> value]

\* the loop of filter run from the last row to the first
RECURSIVE collectIndicesDescending(_, _, _)
collectIndicesDescending(keep, i, n) ==
    IF i > n THEN <<>>
    ELSE collectIndicesDescending(keep, i + 1, n) \o (IF keep[i] THEN <<i>> ELSE <<>>)

\* the indices the loop of filter collects: the rows whose flag is set, ascending
RECURSIVE collectIndices(_, _, _)
collectIndices(keep, i, n) ==
    IF i > n THEN <<>>
    ELSE (IF keep[i] THEN <<i>> ELSE <<>>) \o collectIndices(keep, i + 1, n)

\* filter(dataTable, predicate); keep[i] is predicate(row i, i)
filter(dataTable, keep) ==
    permuteRows(dataTable, collectIndices(keep, 1, numRows(dataTable)))

predicateNaNOnly(t, i) ==
    \A j \in 1..Len(t) : getRow(t, i, t[j].name).k # "nan"

\* the filterNaN predicate: every key of the row holds a finite value
predicateNaN(t, i) ==
    \A j \in 1..Len(t) : isFinite(getRow(t, i, t[j].name))

PredicatesLteAsLt(comparator, a, value) ==
    CASE comparator = "lt" -> Lt(a, value)
      [] comparator = "lte" -> Lt(a, value)
      [] comparator = "gt" -> Lt(value, a)
      [] comparator = "gte" -> Lt(value, a) \/ (a.k \in {"num", "inf"} /\ a = value)
      [] comparator = "eq" -> StrictEq(a, value)
      [] comparator = "neq" -> ~StrictEq(a, value)
      [] OTHER -> TRUE

\* the Predicates table of filterByValue, a = row[columnName]
Predicates(comparator, a, value) ==
    CASE comparator = "lt" -> Lt(a, value)
      [] comparator = "lte" -> Lt(a, value) \/ (a.k \in {"num", "inf"} /\ a = value)
      [] comparator = "gt" -> Lt(value, a)
      [] comparator = "gte" -> Lt(value, a) \/ (a.k \in {"num", "inf"} /\ a = value)
      [] comparator = "eq" -> StrictEq(a, value)
      [] comparator = "neq" -> ~StrictEq(a, value)
      [] OTHER -> TRUE

\* shNames.findIndex(v => !dataTable.hasColumn(v)), 0-based, -1 when all 45 exist
firstMissingSh(t) ==
    IF \A n \in 1..45 : hasColumn(t, shNames[n]) THEN -1
    ELSE (CHOOSE n \in 1..45 :
             ~hasColumn(t, shNames[n]) /\ \A l \in 1..(n-1) : hasColumn(t, shNames[l])) - 1

\* { '9': 1, '24': 2, '-1': 3 }[index] ?? 0
bandsOf(t) ==
    LET idx == firstMissingSh(t)
    IN IF idx = 9 THEN 1 ELSE IF idx = 24 THEN 2 ELSE IF idx = -1 THEN 3 ELSE 0

coeffs == <<0, 3, 8, 15>>      \* [0, 3, 8, 15][bands]

\* map[name]: "" when name is not a key of map, "null" for a dropped coefficient
bandMap(name, inputCoeffs, outputCoeffs) ==
    IF \E n \in 0..(3 * inputCoeffs - 1) : shNames[n + 1] = name
    THEN LET n == CHOOSE n \in 0..(3 * inputCoeffs - 1) : shNames[n + 1] = name
             i == n % inputCoeffs
             j == n \div inputCoeffs
         IN IF i < outputCoeffs THEN shNames[i + j * outputCoeffs + 1] ELSE "null"
    ELSE ""

\* result.columns.map(...).filter(c => c !== null)
RECURSIVE mapColumns(_, _, _)
mapColumns(columns, inputCoeffs, outputCoeffs) ==
    IF columns = <<>> THEN <<>>
    ELSE LET c == Head(columns)
             name == bandMap(c.name, inputCoeffs, outputCoeffs)
         IN (IF name = "" THEN <<c>>
             ELSE IF name = "null" THEN <<>>
             ELSE <<Col(name, c.dataType, c.data)>>)
            \o mapColumns(Tail(columns), inputCoeffs, outputCoeffs)

\* the filterBands case; inputBands is computed from the dataTable parameter
filterBands(dataTable, result, outputBands) ==
    LET inputBands == bandsOf(dataTable)
    IN IF outputBands < inputBands
       THEN mapColumns(result, coeffs[inputBands + 1], coeffs[outputBands + 1])
       ELSE result

\* one iteration of the loop: the switch on processAction.kind
processAction(dataTable, result, a) ==
    CASE a.kind = "filterNaN" ->
            filter(result, [i \in 1..numRows(result) |-> predicateNaN(result, i)])
      [] a.kind = "filterByValue" ->
            filter(result, [i \in 1..numRows(result) |->
                      Predicates(a.comparator, getRow(result, i, a.columnName), a.value)])
      [] a.kind = "filterBands" -> filterBands(dataTable, result, a.value.v)
      [] OTHER -> result

\* the loop over processActions, from index i with the current result
RECURSIVE processLoop(_, _, _, _)
processLoop(dataTable, result, processActions, i) ==
    IF i > Len(processActions) THEN result
    ELSE processLoop(dataTable, processAction(dataTable, result, processActions[i]),
                     processActions, i + 1)

processDataTable(dataTable, processActions) ==
    processLoop(dataTable, dataTable, processActions, 1)

----------------------------------------------------------------------------
(* Specification of processDataTable: a table is drawn at the start and     *)
(* each step handles the next action of the processActions list.            *)

RowTypes ==
    { <<Num(0), Num(0), Num(0)>>, <<Num(1), Num(0), Num(0)>>, <<NaN, Num(0), Num(0)>>,
      <<Num(0), PInf, Num(0)>>, <<Num(1), NInf, Num(0)>>, <<Num(0), Num(0), NInf>> }

RowsTable(rows) ==
    << Col("x", "float32", [i \in 1..Len(rows) |-> rows[i][1]]),
       Col("opacity", "float32", [i \in 1..Len(rows) |-> rows[i][2]]),
       Col("scale_0", "float32", [i \in 1..Len(rows) |-> rows[i][3]]) >>

ValueTables == UNION {{RowsTable(rows) : rows \in [1..n -> RowTypes]} : n \in 1..MaxRows}

\* one row, x and f_rest_0 .. f_rest_(n-1), each cell tagged with its column
ShTable(n) ==
    <<Col("x", "float32", <<Num(0)>>)>> \o
    [k \in 1..n |-> Col(shNames[k], "float32", <<Num(100 + k - 1)>>)]

ShTables == {ShTable(n) : n \in {0, 9, 10, 24, 45}}

\* scenario E4: one NaN position component, one opacity of -Infinity
E4Table ==
    RowsTable(<< <<NaN, Num(0), Num(0)>>, <<Num(0), NInf, Num(0)>>,
                 <<Num(0), Num(0), Num(0)>>, <<Num(1), Num(0), Num(0)>> >>)

Comparators == {"lt", "lte", "gt", "gte", "eq", "neq"}
FilterColumns == {"x", "nope"}
FilterValues == {Num(0), Num(1)}

InitProcess ==
    /\ pDataTable \in ValueTables \cup ShTables \cup {E4Table}
    /\ pResult = pDataTable
    /\ pPrev = <<>>
    /\ pLast = Act("none", "", "", Num(0))
    /\ CombineIdle /\ MainIdle /\ UnitsIdle

Handled(a, result) ==
    /\ pLast.kind # "idle"
    /\ pPrev' = pResult
    /\ pLast' = a
    /\ pResult' = result
    /\ UNCHANGED pDataTable
    /\ UNCHANGED <<combineVars, mainVars, unitVars>>

FilterNaN ==
    LET a == Act("filterNaN", "", "", Num(0))
    IN Handled(a, processAction(pDataTable, pResult, a))

FilterByValue ==
    \E columnName \in FilterColumns, comparator \in Comparators, value \in FilterValues :
        LET a == Act("filterByValue", columnName, comparator, value)
        IN Handled(a, processAction(pDataTable, pResult, a))

FilterBands ==
    \E outputBands \in 0..3 :
        LET a == Act("filterBands", "", "", Num(outputBands))
        IN Handled(a, processAction(pDataTable, pResult, a))

Param ==
    LET a == Act("param", "", "", Num(0))
    IN Handled(a, processAction(pDataTable, pResult, a))

----------------------------------------------------------------------------
(* parseArguments *)

Tok(kind, name, value) == [kind |-> kind, name |-> name, value |-> value]

RECURSIVE paramActions(_)
paramActions(n) ==
    IF n = 0 THEN <<>> ELSE <<Act("param", "", "", Num(0))>> \o paramActions(n - 1)

\* the switch on t.name: the actions one option token pushes
tokenActions(t) ==
    CASE t.name = "filterNaN" -> <<Act("filterNaN", "", "", Num(0))>>
      [] t.name = "filterBands" -> <<Act("filterBands", "", "", Num(t.value))>>
      [] t.name = "params" -> paramActions(t.value)
      [] OTHER -> <<>>

pushToFirst(files, actions) ==
    [files EXCEPT ![1].processActions = @ \o actions]

\* current = files[files.length - 1]; current.processActions.push(...)
pushToCurrent(files, actions) ==
    [files EXCEPT ![Len(files)].processActions = @ \o actions]

\* the loop over tokens
RECURSIVE parseTokens(_, _)
parseTokens(tokens, files) ==
    IF tokens = <<>> THEN files
    ELSE LET t == Head(tokens)
         IN parseTokens(Tail(tokens),
                IF t.kind = "positional"
                THEN Append(files, [filename |-> t.name, processActions |-> <<>>])
                ELSE IF t.kind = "option" /\ Len(files) > 0
                     THEN pushToCurrent(files, tokenActions(t))
                     ELSE files)

parseArguments(tokens) ==
    [files |-> parseTokens(tokens, <<>>),
     overwrite |-> \E i \in 1..Len(tokens) :
                      tokens[i].kind = "option" /\ tokens[i].name = "overwrite"]

----------------------------------------------------------------------------
(* main, readFile, writeFile *)

GSColumns ==
    <<"x", "y", "z", "rot_0", "rot_1", "rot_2", "rot_3",
      "scale_0", "scale_1", "scale_2", "f_dc_0", "f_dc_1", "f_dc_2", "opacity">>

isGSDataTableAlways(dataTable) == TRUE

isGSDataTable(dataTable) ==
    \A i \in 1..Len(GSColumns) : hasColumn(dataTable, GSColumns[i])

\* the output format of a filename: 'sog' for an unbundled SOG (meta.json),
\* which is written as meta.json and image files beside it; 'ply' otherwise
getOutputFormat(filename) ==
    IF filename = "meta.json" THEN "sog" ELSE "ply"

\* the sibling temporary pathname of the output pathname
tmpPathname(filename) == "tmp"

\* the kinds of the actions whose case changes or filters the table
RECURSIVE appliedKinds(_)
appliedKinds(processActions) ==
    IF processActions = <<>> THEN <<>>
    ELSE (IF Head(processActions).kind = "param" THEN <<>>
          ELSE <<Head(processActions).kind>>) \o appliedKinds(Tail(processActions))

inputTablesReversed(inputFiles) ==
    [k \in 1..Len(inputFiles) |-> inputFiles[Len(inputFiles) + 1 - k]]

\* inputFiles.map(file => file.elements[0].dataTable): Promise.all resolves
\* with the tasks' results in the order of inputArgs
inputTables(inputFiles) ==
    [k \in 1..Len(inputFiles) |-> inputFiles[k]]

\* the body of main's catch: console.error(err); exit(1)
Exit1 ==
    /\ mPc' = "exited"
    /\ mExit' = 1

numInputs == Len(mFiles) - 1

----------------------------------------------------------------------------
(* Specification of a run of main.  The command line is drawn from short    *)
(* token lists; each input file's content is drawn when it is read; every   *)
(* file operation may fail; another party may create the output file.       *)

MaxTokens == 4      \* most tokens after the global options
MaxPos == 3         \* most positional arguments of a command line

\* a positional argument, or an option that follows the global options
TokenAlphabet ==
    { Tok("positional", "file", 0), Tok("positional", "meta.json", 0),
      Tok("option", "filterNaN", 0), Tok("option", "filterBands", 0),
      Tok("option", "params", 2) }

\* the inputs are single files; the output is a single file or an unbundled SOG
OnlyOutputIsSog(t) ==
    \A i \in 1..Len(t) :
        t[i].name = "meta.json" =>
            \A j \in (i + 1)..Len(t) : t[j].kind # "positional"

\* [-w] followed by positional arguments and action options in any order
CommandLines ==
    {g \o t : g \in {<<>>, <<Tok("option", "overwrite", 0)>>},
              t \in {t \in UNION {[1..n -> TokenAlphabet] : n \in 0..MaxTokens} :
                        /\ Cardinality({i \in 1..Len(t) : t[i].kind = "positional"}) <= MaxPos
                        /\ OnlyOutputIsSog(t)}}

GsTable == [j \in 1..Len(GSColumns) |-> Col(GSColumns[j], "float32", <<Num(0)>>)]
GsNaNTable == [GsTable EXCEPT ![1].data = <<NaN>>]
EmptyGsTable == [j \in 1..Len(GSColumns) |-> Col(GSColumns[j], "float32", <<>>)]
NonGsTable == SubSeq(GsTable, 1, Len(GSColumns) - 1)

\* the tables a reader may return as the single element 'vertex'
FileTables == {GsTable, GsNaNTable, EmptyGsTable, NonGsTable}

\* the content of input k: every z value of the file is k, so that a row of
\* any later table tells which input it came from
FileContent(t, k) ==
    [c \in 1..Len(t) |->
        IF t[c].name = "z"
        THEN Col(t[c].name, t[c].dataType, [r \in 1..Len(t[c].data) |-> Num(k)])
        ELSE t[c]]

InitMain ==
    /\ mTokens \in CommandLines
    /\ mOverwrite = FALSE
    /\ mFiles = <<>>
    /\ mPc = "parse"
    /\ mExit = -1
    /\ mTask = <<>>
    /\ mTable = <<>>
    /\ mApplied = <<>>
    /\ mCombined = <<>>
    \* an output that exists is a whole one: the file with its image file
    /\ mFs \in {[out |-> o, tmp |-> "absent", sib |-> o] : o \in {"absent", "old"}}
    /\ mHandles = {}
    /\ mOther = FALSE
    /\ CombineIdle /\ ProcessIdle /\ UnitsIdle

Rest(unchanged) == UNCHANGED unchanged /\ UNCHANGED <<combineVars, processVars, unitVars>>

\* parseArguments returned two or more files
ParseArguments ==
    /\ mPc = "parse"
    /\ Len(parseArguments(mTokens).files) >= 2
    /\ mFiles' = parseArguments(mTokens).files
    /\ mOverwrite' = parseArguments(mTokens).overwrite
    /\ mPc' = "check"
    /\ Rest(<<mTokens, mExit, mTask, mTable, mApplied, mCombined, mFs, mHandles, mOther>>)

\* files.length < 2: print the usage and exit(1)
Usage ==
    /\ mPc = "parse"
    /\ Len(parseArguments(mTokens).files) < 2
    /\ mFiles' = parseArguments(mTokens).files
    /\ mOverwrite' = parseArguments(mTokens).overwrite
    /\ Exit1
    /\ Rest(<<mTokens, mTask, mTable, mApplied, mCombined, mFs, mHandles, mOther>>)

\* !options.overwrite && await fileExists(outputArg.filename): exit(1)
OutputExists ==
    /\ mPc = "check"
    /\ ~mOverwrite /\ mFs["out"] # "absent"
    /\ Exit1
    /\ Rest(<<mTokens, mOverwrite, mFiles, mTask, mTable, mApplied, mCombined, mFs, mHandles, mOther>>)

\* the check passes; Promise.all starts one task per input
StartReading ==
    /\ mPc = "check"
    /\ mOverwrite \/ mFs["out"] = "absent"
    /\ mPc' = "read"
    /\ mTask' = [k \in 1..numInputs |-> "start"]
    /\ mTable' = [k \in 1..numInputs |-> <<>>]
    /\ mApplied' = [k \in 1..Len(mFiles) |-> <<>>]
    /\ Rest(<<mTokens, mOverwrite, mFiles, mExit, mCombined, mFs, mHandles, mOther>>)

\* readFile: open(filename, 'r') resolves
TaskOpen ==
    \E k \in 1..Len(mTask) :
        /\ mPc = "read" /\ mTask[k] = "start"
        /\ mTask' = [mTask EXCEPT ![k] = "open"]
        /\ mHandles' = mHandles \cup {k}
        /\ Rest(<<mTokens, mOverwrite, mFiles, mPc, mExit, mTable, mApplied, mCombined, mFs, mOther>>)

\* readFile: open rejects; the rejection reaches main's catch
TaskOpenFail ==
    \E k \in 1..Len(mTask) :
        /\ mPc = "read" /\ mTask[k] = "start"
        /\ mTask' = [mTask EXCEPT ![k] = "failed"]
        /\ Exit1
        /\ Rest(<<mTokens, mOverwrite, mFiles, mTable, mApplied, mCombined, mFs, mHandles, mOther>>)

\* readFile: the reader returns the file's data
TaskRead ==
    \E k \in 1..Len(mTask), t \in FileTables :
        /\ mPc = "read" /\ mTask[k] = "open"
        /\ mTask' = [mTask EXCEPT ![k] = "read"]
        /\ mTable' = [mTable EXCEPT ![k] = FileContent(t, k)]
        /\ Rest(<<mTokens, mOverwrite, mFiles, mPc, mExit, mApplied, mCombined, mFs, mHandles, mOther>>)

\* readFile: the reader throws; inputFile.close() is not reached
TaskReadFail ==
    \E k \in 1..Len(mTask) :
        /\ mPc = "read" /\ mTask[k] = "open"
        /\ mTask' = [mTask EXCEPT ![k] = "failed"]
        /\ Exit1
        /\ Rest(<<mTokens, mOverwrite, mFiles, mTable, mApplied, mCombined, mFs, mHandles, mOther>>)

\* inputFile.close() resolves, readFile returns, the table is a Gaussian set:
\* processDataTable(dataTable, inputArg.processActions)
TaskProcess ==
    \E k \in 1..Len(mTask) :
        /\ mPc = "read" /\ mTask[k] = "read"
        /\ ~(numRows(mTable[k]) = 0 \/ ~isGSDataTable(mTable[k]))
        /\ mHandles' = mHandles \ {k}
        /\ mTable' = [mTable EXCEPT ![k] = processDataTable(@, mFiles[k].processActions)]
        /\ mApplied' = [mApplied EXCEPT ![k] = appliedKinds(mFiles[k].processActions)]
        /\ mTask' = [mTask EXCEPT ![k] = "done"]
        /\ Rest(<<mTokens, mOverwrite, mFiles, mPc, mExit, mCombined, mFs, mOther>>)

\* inputFile.close() resolves, readFile returns, the table has no rows or is
\* not a Gaussian set: throw 'Unsupported data in file'
TaskUnsupported ==
    \E k \in 1..Len(mTask) :
        /\ mPc = "read" /\ mTask[k] = "read"
        /\ numRows(mTable[k]) = 0 \/ ~isGSDataTable(mTable[k])
        /\ mHandles' = mHandles \ {k}
        /\ mTask' = [mTask EXCEPT ![k] = "failed"]
        /\ Exit1
        /\ Rest(<<mTokens, mOverwrite, mFiles, mTable, mApplied, mCombined, mFs, mOther>>)

\* Promise.all resolves: combine, the output's actions, then writeFile up to
\* its open(tmpPathname, 'wx')
CombineAndProcess ==
    /\ mPc = "read"
    /\ \A k \in 1..Len(mTask) : mTask[k] = "done"
    /\ LET out == mFiles[Len(mFiles)].processActions
       IN /\ mCombined' = [inputs |-> inputTables(mTable),
                           table |-> processDataTable(combine(inputTables(mTable)), out)]
          /\ mApplied' = [mApplied EXCEPT ![Len(mFiles)] = appliedKinds(out)]
    /\ mPc' = "open"
    /\ Rest(<<mTokens, mOverwrite, mFiles, mExit, mTask, mTable, mFs, mHandles, mOther>>)

\* open(tmpPathname, 'wx') creates the file
OpenTmp ==
    /\ mPc = "open"
    /\ mFs[tmpPathname("out")] = "absent"
    /\ mFs' = [mFs EXCEPT ![tmpPathname("out")] = "empty"]
    /\ mHandles' = mHandles \cup {0}
    /\ mPc' = "write"
    /\ Rest(<<mTokens, mOverwrite, mFiles, mExit, mTask, mTable, mApplied, mCombined, mOther>>)

\* open(tmpPathname, 'wx') rejects (EEXIST when the pathname exists, or another error)
OpenTmpFail ==
    /\ mPc = "open"
    /\ Exit1
    /\ Rest(<<mTokens, mOverwrite, mFiles, mTask, mTable, mApplied, mCombined, mFs, mHandles, mOther>>)

outputFormat == getOutputFormat(mFiles[Len(mFiles)].filename)

\* writeSog, not a bundle: write(filename, data) opens the image file beside
\* the output with 'wb' and writes it
WriteSogImage ==
    /\ mPc = "write"
    /\ outputFormat = "sog"
    /\ mFs["sib"] # "written"
    /\ mFs' = [mFs EXCEPT !["sib"] = "written"]
    /\ Rest(<<mTokens, mOverwrite, mFiles, mPc, mExit, mTask, mTable, mApplied, mCombined, mHandles, mOther>>)

\* writeSog, not a bundle: fileHandle.write(metaJson), the writer returns
WriteSogMeta ==
    /\ mPc = "write"
    /\ outputFormat = "sog"
    /\ mFs["sib"] = "written"
    /\ mFs' = [mFs EXCEPT ![tmpPathname("out")] = "written"]
    /\ mPc' = "sync"
    /\ Rest(<<mTokens, mOverwrite, mFiles, mExit, mTask, mTable, mApplied, mCombined, mHandles, mOther>>)

\* the writer writes a first part of the data
WritePart ==
    /\ mPc = "write"
    /\ outputFormat # "sog"
    /\ mFs[tmpPathname("out")] = "empty"
    /\ mFs' = [mFs EXCEPT ![tmpPathname("out")] = "partial"]
    /\ Rest(<<mTokens, mOverwrite, mFiles, mPc, mExit, mTask, mTable, mApplied, mCombined, mHandles, mOther>>)

\* the writer writes the rest of the data and returns
WriteRest ==
    /\ mPc = "write"
    /\ mFs[tmpPathname("out")] = "partial"
    /\ mFs' = [mFs EXCEPT ![tmpPathname("out")] = "written"]
    /\ mPc' = "sync"
    /\ Rest(<<mTokens, mOverwrite, mFiles, mExit, mTask, mTable, mApplied, mCombined, mHandles, mOther>>)

\* the writer throws: finally closes the handle, the error reaches main's catch
WriteFail ==
    /\ mPc = "write"
    /\ mHandles' = mHandles \ {0}
    /\ Exit1
    /\ Rest(<<mTokens, mOverwrite, mFiles, mTask, mTable, mApplied, mCombined, mFs, mOther>>)

\* outputFile.sync() resolves, finally closes the handle
Sync ==
    /\ mPc = "sync"
    /\ mFs' = [mFs EXCEPT ![tmpPathname("out")] = "synced"]
    /\ mHandles' = mHandles \ {0}
    /\ mPc' = "rename"
    /\ Rest(<<mTokens, mOverwrite, mFiles, mExit, mTask, mTable, mApplied, mCombined, mOther>>)

\* outputFile.sync() rejects: finally closes the handle, the error reaches main's catch
SyncFail ==
    /\ mPc = "sync"
    /\ mHandles' = mHandles \ {0}
    /\ Exit1
    /\ Rest(<<mTokens, mOverwrite, mFiles, mTask, mTable, mApplied, mCombined, mFs, mOther>>)

\* rename(tmpPathname, filename) resolves; main logs and calls exit(0)
Rename ==
    /\ mPc = "rename"
    /\ mFs' = [mFs EXCEPT !["out"] = mFs[tmpPathname("out")],
                          ![tmpPathname("out")] = "absent"]
    /\ mPc' = "exited"
    /\ mExit' = 0
    /\ Rest(<<mTokens, mOverwrite, mFiles, mTask, mTable, mApplied, mCombined, mHandles, mOther>>)

\* rename rejects: the error reaches main's catch
RenameFail ==
    /\ mPc = "rename"
    /\ Exit1
    /\ Rest(<<mTokens, mOverwrite, mFiles, mTask, mTable, mApplied, mCombined, mFs, mHandles, mOther>>)

\* another party creates a file at the output pathname while the tool runs
OtherCreates ==
    /\ mExit = -1
    /\ ~mOther
    /\ mFs["out"] = "absent"
    /\ mFs' = [mFs EXCEPT !["out"] = "theirs"]
    /\ mOther' = TRUE
    /\ Rest(<<mTokens, mOverwrite, mFiles, mPc, mExit, mTask, mTable, mApplied, mCombined, mHandles>>)

----------------------------------------------------------------------------
(* writePly and readPly.  A file is a header, the list of its lines each    *)
(* split into words, and a body, a list of bytes.  A byte names the value   *)
(* it is part of and its position in it; every byte of the number 0 is the  *)
(* zero byte, which is also what a fresh buffer holds.                      *)

chunkSize == 2      \* rows per chunk (1024 in the code), scaled to the tables drawn

Error(message) == [error |-> message]

Min(a, b) == IF a < b THEN a ELSE b

columnTypeToPlyType(type) ==
    CASE type = "float32" -> "float"
      [] type = "float64" -> "double"
      [] type = "int8" -> "char"
      [] type = "uint8" -> "uchar"
      [] type = "int16" -> "short"
      [] type = "uint16" -> "ushort"
      [] type = "int32" -> "int"
      [] type = "uint32" -> "uint"
      [] OTHER -> "undefined"

\* the element type of the typed array getDataType returns, "null" for null
getDataType(type) ==
    CASE type = "char" -> "int8"
      [] type = "uchar" -> "uint8"
      [] type = "short" -> "int16"
      [] type = "ushort" -> "uint16"
      [] type = "int" -> "int32"
      [] type = "uint" -> "uint32"
      [] type = "float" -> "float32"
      [] type = "double" -> "float64"
      [] OTHER -> "null"

BYTES_PER_ELEMENT(dataType) ==
    CASE dataType \in {"int8", "uint8"} -> 1
      [] dataType \in {"int16", "uint16"} -> 2
      [] dataType \in {"int32", "uint32", "float32"} -> 4
      [] OTHER -> 8

ZeroByte == [of |-> Num(0), lane |-> 0]

byteOf(v, i) == IF v = Num(0) THEN ZeroByte ELSE [of |-> v, lane |-> i]

\* the bytes of column.data.buffer
bufferOf(column) ==
    LET s == BYTES_PER_ELEMENT(column.dataType)
    IN [i \in 1..(Len(column.data) * s) |->
           byteOf(column.data[((i - 1) \div s) + 1], ((i - 1) % s) + 1)]

\* the number a typed array shows for the bytes of one element
valueOf(bytes) ==
    IF \A i \in 1..Len(bytes) : bytes[i] = ZeroByte THEN Num(0)
    ELSE IF \A i \in 1..Len(bytes) : bytes[i].lane = i /\ bytes[i].of = bytes[1].of
         THEN bytes[1].of
         ELSE [k |-> "mixed", v |-> 0]

typedArrayOf(buffer, s) ==
    [r \in 1..(Len(buffer) \div s) |-> valueOf(SubSeq(buffer, (r - 1) * s + 1, r * s))]

RECURSIVE Sum(_)
Sum(seq) == IF seq = <<>> THEN 0 ELSE Head(seq) + Sum(Tail(seq))

\* the column a byte of a row belongs to, and the byte's offset in the row
\* at which that column starts
columnAt(sizes, o) ==
    CHOOSE p \in 1..Len(sizes) :
        Sum(SubSeq(sizes, 1, p - 1)) <= o /\ o < Sum(SubSeq(sizes, 1, p))

columnStart(sizes, p) == Sum(SubSeq(sizes, 1, p - 1))


\* the header lines of one element: element <name> <numRows>, then one
\* property line per column
elementLines(element) ==
    << <<"element", element.name, numRows(element.dataTable)>> >> \o
    [c \in 1..Len(element.dataTable) |->
        <<"property", columnTypeToPlyType(element.dataTable[c].dataType),
          element.dataTable[c].name>>]

RECURSIVE elementsLines(_)
elementsLines(elements) ==
    IF elements = <<>> THEN <<>>
    ELSE elementLines(Head(elements)) \o elementsLines(Tail(elements))

writePlyHeader(plyData) ==
    << <<"ply">>, <<"format", "binary_little_endian", "1.0">> >> \o
    [i \in 1..Len(plyData.comments) |-> <<"comment", plyData.comments[i]>>] \o
    elementsLines(plyData.elements) \o
    << <<"end_header">> >>

chunkRowsFromStart(buffers, sizes, c, n) ==
    LET rowSize == Sum(sizes)
    IN [i \in 1..(n * rowSize) |->
           LET r == (i - 1) \div rowSize
               o == (i - 1) % rowSize
               q == columnAt(sizes, o)
           IN buffers[q][r * sizes[q] + (o - columnStart(sizes, q)) + 1]]

\* chunkData.subarray(0, offset) after the loops over r and p of chunk c
chunkRows(buffers, sizes, c, n) ==
    LET rowSize == Sum(sizes)
    IN [i \in 1..(n * rowSize) |->
           LET r == (i - 1) \div rowSize
               o == (i - 1) % rowSize
               q == columnAt(sizes, o)
               rowOffset == c * chunkSize + r
           IN buffers[q][rowOffset * sizes[q] + (o - columnStart(sizes, q)) + 1]]

\* the loop over the chunks of one table, from chunk c
RECURSIVE writeChunks(_, _, _, _)
writeChunks(buffers, sizes, rows, c) ==
    IF c * chunkSize >= rows THEN <<>>
    ELSE chunkRows(buffers, sizes, c, Min(chunkSize, rows - c * chunkSize))
            \o writeChunks(buffers, sizes, rows, c + 1)

writeTable(table) ==
    writeChunks([c \in 1..Len(table) |-> bufferOf(table[c])],
                [c \in 1..Len(table) |-> BYTES_PER_ELEMENT(table[c].dataType)],
                numRows(table), 0)

RECURSIVE writeTables(_)
writeTables(elements) ==
    IF elements = <<>> THEN <<>>
    ELSE writeTable(Head(elements).dataTable) \o writeTables(Tail(elements))

writePly(plyData) ==
    [header |-> writePlyHeader(plyData), body |-> writeTables(plyData.elements)]

\* the loop of parseHeader over the lines, from line i (the first is skipped)
RECURSIVE parseLines(_, _, _, _)
parseLines(lines, i, comments, elements) ==
    IF i > Len(lines) THEN [comments |-> comments, elements |-> elements]
    ELSE LET words == lines[i]
         IN CASE words[1] \in {"ply", "format", "end_header"} ->
                    parseLines(lines, i + 1, comments, elements)
              [] words[1] = "comment" ->
                    parseLines(lines, i + 1, Append(comments, words[2]), elements)
              [] words[1] = "element" ->
                    IF Len(words) # 3 THEN Error("invalid ply header")
                    ELSE parseLines(lines, i + 1, comments,
                            Append(elements, [name |-> words[2], count |-> words[3],
                                              properties |-> <<>>]))
              [] words[1] = "property" ->
                    IF elements = <<>> \/ Len(words) # 3 \/ getDataType(words[2]) = "null"
                    THEN Error("invalid ply header")
                    ELSE parseLines(lines, i + 1, comments,
                            [elements EXCEPT ![Len(elements)].properties =
                                Append(@, [name |-> words[3], type |-> words[2]])])
              [] OTHER -> Error("unrecognized header value")

parseHeader(lines) == parseLines(lines, 2, <<>>, <<>>)


\* await fileHandle.read(chunkData, 0, want): the bytes the file still has
\* are stored at the start of chunkData, the rest of chunkData is kept; the
\* number of bytes read is not looked at
readChunk(body, pos, chunkData, want) ==
    LET got == Min(want, Len(body) - pos)
    IN [chunkData |-> [i \in 1..Len(chunkData) |->
                          IF i <= got THEN body[pos + i] ELSE chunkData[i]],
        pos |-> pos + got]

\* the loops over r and p of chunk c: copy the rows of chunkData into the
\* columns' buffers
copyRows(buffers, sizes, chunkData, c, n) ==
    LET rowSize == Sum(sizes)
    IN [q \in 1..Len(buffers) |->
           [i \in 1..Len(buffers[q]) |->
               LET rowOffset == (i - 1) \div sizes[q]
                   r == rowOffset - c * chunkSize
               IN IF r >= 0 /\ r < n
                  THEN chunkData[r * rowSize + columnStart(sizes, q) + ((i - 1) % sizes[q]) + 1]
                  ELSE buffers[q][i]]]

\* the loop over the chunks of one element, from chunk c
RECURSIVE readChunks(_, _, _, _, _, _, _)
readChunks(body, pos, chunkData, buffers, sizes, count, c) ==
    IF c * chunkSize >= count THEN [buffers |-> buffers, pos |-> pos]
    ELSE LET n == Min(chunkSize, count - c * chunkSize)
             got == readChunk(body, pos, chunkData, Sum(sizes) * n)
         IN IF "error" \in DOMAIN got THEN got
            ELSE readChunks(body, got.pos, got.chunkData,
                            copyRows(buffers, sizes, got.chunkData, c, n),
                            sizes, count, c + 1)

\* one iteration of the loop over header.elements: the element's table, or
\* the error thrown, and the file position after it
readElement(element, body, pos) ==
    LET types == [q \in 1..Len(element.properties) |-> getDataType(element.properties[q].type)]
        sizes == [q \in 1..Len(types) |-> BYTES_PER_ELEMENT(types[q])]
        zeros == [q \in 1..Len(types) |-> [i \in 1..(element.count * sizes[q]) |-> ZeroByte]]
        chunkData == [i \in 1..(chunkSize * Sum(sizes)) |-> ZeroByte]
        read == readChunks(body, pos, chunkData, zeros, sizes, element.count, 0)
    IN IF "error" \in DOMAIN read THEN read
       ELSE IF Len(types) = 0 THEN Error("DataTable must have at least one column")
       ELSE [pos |-> read.pos,
             dataTable |-> [q \in 1..Len(types) |->
                 Col(element.properties[q].name, types[q],
                     typedArrayOf(read.buffers[q], sizes[q]))]]

RECURSIVE readElements(_, _, _, _)
readElements(elements, body, pos, done) ==
    IF elements = <<>> THEN [elements |-> done]
    ELSE LET e == readElement(Head(elements), body, pos)
         IN IF "error" \in DOMAIN e THEN e
            ELSE readElements(Tail(elements), body, e.pos,
                    Append(done, [name |-> Head(elements).name, dataTable |-> e.dataTable]))

readPly(file) ==
    LET header == parseHeader(file.header)
    IN IF "error" \in DOMAIN header THEN header
       ELSE LET read == readElements(header.elements, file.body, 0, <<>>)
            IN IF "error" \in DOMAIN read THEN read
               ELSE [comments |-> header.comments, elements |-> read.elements]

\* writeFile, case 'ply': the data handed to writePly
plyDataOf(dataTable) ==
    [comments |-> <<>>, elements |-> << [name |-> "vertex", dataTable |-> dataTable] >>]


----------------------------------------------------------------------------
(* Specification of the PLY writer and reader: a table and comments are     *)
(* drawn and written with writePly; the file, whole or cut short, is read   *)
(* with readPly; what was read is written again as the tool's writeFile     *)
(* writes a .ply output.                                                    *)

MaxPlyRows == 3     \* most rows of a table written as PLY

PlySchemas ==
    { << <<"x", "float32">> >>,
      << <<"x", "float32">>, <<"y", "float32">> >>,
      << <<"x", "float32">>, <<"red", "uint8">>, <<"y", "float32">> >> }

\* the cell of column j, row r: a tag, 0 in the first row of the last column
PlyCell(schema, j, r) ==
    IF j = Len(schema) /\ r = 1 THEN Num(0) ELSE Num(10 * j + r)

PlyTables ==
    {[j \in 1..Len(schema) |->
         Col(schema[j][1], schema[j][2], [r \in 1..n |-> PlyCell(schema, j, r)])] :
       schema \in PlySchemas, n \in 0..MaxPlyRows}

PlyComments == {<<>>, <<"a">>, <<"b", "a">>}

InitPly ==
    /\ ply \in {[pc |-> "table", table |-> t, comments |-> c,
                 file |-> <<>>, data |-> <<>>, out |-> <<>>] :
                   t \in PlyTables, c \in PlyComments}
    /\ CombineIdle /\ ProcessIdle /\ MainIdle
    /\ SogIdle /\ ZipIdle /\ TableIdle /\ OrderingIdle /\ KmeansIdle /\ ClusterIdle /\ SpzIdle /\ ProcIdle

OnlyPly == UNCHANGED <<combineVars, processVars, mainVars, sog, zip, dt, ord, km, cl, spz, proc>>

\* writePly of one element 'vertex' holding the table
PlyWrite ==
    /\ ply.pc = "table"
    /\ ply' = [ply EXCEPT !.pc = "file",
                          !.file = writePly([comments |-> ply.comments,
                                             elements |-> << [name |-> "vertex",
                                                              dataTable |-> ply.table] >>])]
    /\ OnlyPly

\* the file loses the end of its body
PlyTruncate ==
    /\ ply.pc = "file"
    /\ \E n \in 0..(Len(ply.file.body) - 1) :
          ply' = [ply EXCEPT !.pc = "short", !.file.body = SubSeq(@, 1, n)]
    /\ OnlyPly

PlyRead ==
    /\ ply.pc \in {"file", "short"}
    /\ ply' = [ply EXCEPT !.pc = IF ply.pc = "file" THEN "read" ELSE "readShort",
                          !.data = readPly(ply.file)]
    /\ OnlyPly

\* the tool writes what it read as .ply: writeFile hands writePly the table
PlyToolWrite ==
    /\ ply.pc = "read"
    /\ "error" \notin DOMAIN ply.data
    /\ ply' = [ply EXCEPT !.pc = "written",
                          !.out = writePly(plyDataOf(ply.data.elements[1].dataTable))]
    /\ OnlyPly

----------------------------------------------------------------------------
(* Numbers of the clustering code.  The points are integers; a centroid is  *)
(* the mean of points, kept as the exact fraction n / d with d > 0.         *)

\* the value of an expression that is computed once and then used many
\* times: The({e(v) : v \in {computed}})
The(S) == CHOOSE x \in S : TRUE

Rat(n, d) == [n |-> n, d |-> d]

Abs(i) == IF i < 0 THEN -i ELSE i

RECURSIVE GCD(_, _)
GCD(a, b) == IF b = 0 THEN a ELSE GCD(b, a % b)

RatNorm(r) ==
    LET g == GCD(Abs(r.n), r.d)
    IN  Rat(r.n \div g, r.d \div g)

RatOf(i) == Rat(i, 1)

RatLt(a, b) == a.n * b.d < b.n * a.d

RatAdd(a, b) == RatNorm(Rat(a.n * b.d + b.n * a.d, a.d * b.d))

RatSub(a, b) == RatNorm(Rat(a.n * b.d - b.n * a.d, a.d * b.d))

RatMul(a, b) == RatNorm(Rat(a.n * b.n, a.d * b.d))

RatDiv(a, count) == RatNorm(Rat(a.n, a.d * count))

\* array.sort((a, b) => keys[a] - keys[b]) of the array 0, 1, ..: the
\* indices in ascending order of their keys, equal keys in index order
sortOrder(keys) ==
    LET n == Len(keys)
        rank(i) == 1 + Cardinality({j \in 1..n :
                        \/ RatLt(keys[j], keys[i])
                        \/ (j < i /\ ~RatLt(keys[i], keys[j]))})
    IN  [r \in 1..n |-> (CHOOSE i \in 1..n : rank(i) = r) - 1]

----------------------------------------------------------------------------
(* KdTree.  A table of the clustering code is the sequence of its columns'  *)
(* data; rows and centroids are numbered from 0 as in the code.             *)

NoNode == [index |-> -1]

KdTreeNode(index, left, right) == [index |-> index, left |-> left, right |-> right]

RECURSIVE build(_, _, _)
build(centroids, indices, depth) ==
    LET values == centroids[(depth % Len(centroids)) + 1]
        order == sortOrder([j \in 1..Len(indices) |-> values[indices[j] + 1]])
        sorted == [r \in 1..Len(indices) |-> indices[order[r] + 1]]
        mid == Len(sorted) \div 2
    IN  IF Len(sorted) = 1 THEN KdTreeNode(sorted[1], NoNode, NoNode)
        ELSE IF Len(sorted) = 2
             THEN KdTreeNode(sorted[1], NoNode, KdTreeNode(sorted[2], NoNode, NoNode))
        ELSE KdTreeNode(sorted[mid + 1],
                        build(centroids, SubSeq(sorted, 1, mid), depth + 1),
                        build(centroids, SubSeq(sorted, mid + 2, Len(sorted)), depth + 1))

KdTree(centroids) ==
    [centroids |-> centroids,
     root |-> build(centroids, [i \in 1..Len(centroids[1]) |-> i - 1], 0)]

\* the sum of a list of fractions; the sum is exact, so the list is summed
\* by halves
RECURSIVE SumRat(_)
SumRat(s) ==
    IF Len(s) = 0 THEN RatOf(0)
    ELSE IF Len(s) = 1 THEN s[1]
    ELSE The({RatAdd(low, high) :
                low \in {SumRat(SubSeq(s, 1, Len(s) \div 2))},
                high \in {SumRat(SubSeq(s, (Len(s) \div 2) + 1, Len(s)))}})

calcDistance(centroids, point, index) ==
    SumRat([i \in 1..Len(centroids) |->
               LET v == RatSub(centroids[i][index + 1], point[i])
               IN  RatMul(v, v)])

\* recurse without the check of the other side
RECURSIVE recurseNearSide(_, _, _, _, _)
recurseNearSide(centroids, point, node, depth, st) ==
    LET axis == depth % Len(centroids)
        distance == RatSub(point[axis + 1], centroids[axis + 1][node.index + 1])
        next == IF RatLt(RatOf(0), distance) THEN node.right ELSE node.left
        st1 == [st EXCEPT !.cnt = @ + 1]
        st2 == IF next # NoNode THEN recurseNearSide(centroids, point, next, depth + 1, st1) ELSE st1
        thisd == calcDistance(centroids, point, node.index)
    IN  IF st2.mini = -1 \/ RatLt(thisd, st2.mind)
        THEN [st2 EXCEPT !.mind = thisd, !.mini = node.index]
        ELSE st2

\* st is the state of one findNearest call: mini = -1 while mind is Infinity
RECURSIVE recurse(_, _, _, _, _)
recurse(centroids, point, node, depth, st) ==
    LET axis == depth % Len(centroids)
        distance == RatSub(point[axis + 1], centroids[axis + 1][node.index + 1])
        goRight == RatLt(RatOf(0), distance)
        next == IF goRight THEN node.right ELSE node.left
        st1 == [st EXCEPT !.cnt = @ + 1]
        st2 == IF next # NoNode THEN recurse(centroids, point, next, depth + 1, st1) ELSE st1
        thisd == calcDistance(centroids, point, node.index)
        st3 == IF st2.mini = -1 \/ RatLt(thisd, st2.mind)
               THEN [st2 EXCEPT !.mind = thisd, !.mini = node.index]
               ELSE st2
        other == IF next = node.right THEN node.left ELSE node.right
    IN  IF (st3.mini = -1 \/ RatLt(RatMul(distance, distance), st3.mind)) /\ other # NoNode
        THEN recurse(centroids, point, other, depth + 1, st3)
        ELSE st3

findNearest(kdTree, point) ==
    LET st == recurse(kdTree.centroids, point, kdTree.root, 0,
                      [mind |-> RatOf(0), mini |-> -1, cnt |-> 0])
    IN  [index |-> st.mini, distanceSqr |-> st.mind, cnt |-> st.cnt]

----------------------------------------------------------------------------
(* kmeans *)

\* a table with every element of its columns' data computed
tableOf(columns) == [c \in 1..Len(columns) |-> columns[c] \o <<>>] \o <<>>

tableRows(table) == Len(table[1])

pointOf(table, i) == [c \in 1..Len(table) |-> table[c][i + 1]]

\* the rows chosen by Math.random, in the order chosen: k different rows of
\* the n, here k rows that follow each other, upwards or downwards, from any row
ChosenRows(n, k) ==
    IF n < k THEN {<<>>}
    ELSE {[i \in 1..k |-> (first + n + step * (i - 1)) % n] :
            first \in 0..(n - 1), step \in {1, n - 1}}

initializeCentroids(dataTable, chosen) ==
    [c \in 1..Len(dataTable) |-> [i \in 1..Len(chosen) |-> dataTable[c][chosen[i] + 1]]]

clusterKdTreeCpu(points, centroids) ==
    The({[i \in 1..tableRows(points) |-> findNearest(kdTree, pointOf(points, i - 1)).index] \o <<>> :
           kdTree \in {KdTree(centroids)}})

\* clusters[i] is the list of the points labelled i
groupLabels(labels, k) ==
    [i \in 1..k |-> {p \in 1..Len(labels) : labels[p] = i - 1}]

SumOver(data, cluster) ==
    SumRat([p \in 1..Len(data) |-> IF p \in cluster THEN data[p] ELSE RatOf(0)])

calcAverage(dataTable, cluster) ==
    [c \in 1..Len(dataTable) |->
        IF Cardinality(cluster) > 0
        THEN RatDiv(SumOver(dataTable[c], cluster), Cardinality(cluster))
        ELSE RatOf(0)]

\* the centroids after one more iteration: the averages of the groups
updateCentroids(points, k, labels) ==
    The({tableOf([c \in 1..Len(points) |-> [i \in 1..k |-> calcAverage(points, groups[i])[c]]]) :
           groups \in {groupLabels(labels, k)}})

RECURSIVE kmeansLoop(_, _, _, _, _)
kmeansLoop(points, k, iterations, centroids, steps) ==
    The({The({IF steps + 1 >= iterations
              THEN [centroids |-> updated,
                    labels |-> [type |-> "Uint32Array", data |-> labels],
                    steps |-> steps + 1]
              ELSE kmeansLoop(points, k, iterations, updated, steps + 1) :
                updated \in {updateCentroids(points, k, labels)}}) :
           labels \in {clusterKdTreeCpu(points, centroids)}})

kmeans(points, k, iterations, chosen) ==
    IF tableRows(points) < k
    THEN [centroids |-> points,
          labels |-> [type |-> "Array", data |-> [i \in 1..tableRows(points) |-> i - 1] \o <<>>],
          steps |-> 0]
    ELSE The({kmeansLoop(points, k, iterations, centroids, 0) :
                centroids \in {tableOf(initializeCentroids(points, chosen))}})

----------------------------------------------------------------------------
(* writeSog.  A table handed to writeSog is a function from column names    *)
(* to the columns' data, here integers.  A texture is the list of its       *)
(* pixels in use; the pixel of a means or quats texture is kept as the row  *)
(* it encodes, the alpha of sh0 as the opacity value it encodes.            *)

codebookSize == 4   \* the 256 clusters of cluster1d, scaled down

\* sortCodebook that leaves the labels as kmeans numbered them
sortCodebookKeepLabels(clustered, nColumns, nRows) ==
    The({IF clustered.labels.type # "Uint32Array"
         THEN Error("labels.subarray is not a function")
         ELSE [centroids |-> tableOf(<<[i \in 1..Len(order) |-> clustered.centroids[1][order[i] + 1]]>>),
               labels |-> tableOf([i \in 1..nColumns |->
                             [r \in 1..nRows |-> clustered.labels.data[(i - 1) * nRows + r] % 256]])] :
           order \in {sortOrder(clustered.centroids[1]) \o <<>>}})

\* cluster1d after kmeans: the centroids in ascending order, the labels renumbered
sortCodebook(clustered, nColumns, nRows) ==
    The({LET centroidsData == clustered.centroids[1]
             reordered == [i \in 1..Len(order) |-> centroidsData[order[i] + 1]]
             invOrder == [j \in 1..Len(order) |-> (CHOOSE i \in 1..Len(order) : order[i] = j - 1) - 1]
             labels == [i \in 1..Len(clustered.labels.data) |-> invOrder[clustered.labels.data[i] + 1]]
         IN  IF clustered.labels.type # "Uint32Array"
             THEN Error("labels.subarray is not a function")
             ELSE [centroids |-> tableOf(<<reordered>>),
                   labels |-> tableOf([i \in 1..nColumns |->
                                 [r \in 1..nRows |-> labels[(i - 1) * nRows + r] % 256]])] :
           order \in {sortOrder(clustered.centroids[1]) \o <<>>}})

\* the columns of integers as a table of the clustering code
ratTable(columns) ==
    tableOf([c \in 1..Len(columns) |-> [r \in 1..Len(columns[c]) |-> RatOf(columns[c][r])]])

\* the 1d points of cluster1d: the columns of the table one after the other
points1d(dataTable) ==
    tableOf(<<[p \in 1..(tableRows(dataTable) * Len(dataTable)) |->
                 dataTable[((p - 1) \div tableRows(dataTable)) + 1][((p - 1) % tableRows(dataTable)) + 1]]>>)

cluster1d(dataTable, iterations, chosen) ==
    The({The({sortCodebook(clustered, Len(dataTable), tableRows(dataTable)) :
                clustered \in {kmeans(data, codebookSize, iterations, chosen)}}) :
           data \in {points1d(dataTable)}})

isBundle(outputFilename) == outputFilename \in {"out.sog", "OUT.SOG", "scene.sog"}

\* Math.ceil(Math.sqrt(numRows) / 4) * 4
sogWidth(n) ==
    CHOOSE w \in 0..(n + 4) :
        /\ w % 4 = 0 /\ w * w >= n
        /\ \A v \in 0..(n + 4) : (v % 4 = 0 /\ v * v >= n) => w <= v

\* Math.ceil(numRows / width / 4) * 4
sogHeight(n) ==
    CHOOSE h \in 0..(n + 4) :
        /\ h % 4 = 0 /\ h * sogWidth(n) >= n
        /\ \A v \in 0..(n + 4) : (v % 4 = 0 /\ v * sogWidth(n) >= n) => h <= v

\* write(filename, data): zipWriter.file(filename, webp) or a file next to the output
sogWriteSized(s, filename, data, w, h) ==
    [s EXCEPT !.files = Append(@, [name |-> filename, data |-> data, w |-> w, h |-> h])]

sogWrite(s, filename, data) ==
    sogWriteSized(s, filename, data, sogWidth(Len(s.indices)), sogHeight(Len(s.indices)))

\* writeTableData that takes pixel i from row i, not from row indices[i]
writeTableDataByPixel(s, filename, columns) ==
    sogWrite(s, filename,
             [i \in 1..Len(s.indices) |->
                 <<columns[1][i],
                   IF Len(columns) > 1 THEN columns[2][i] ELSE 0,
                   IF Len(columns) > 2 THEN columns[3][i] ELSE 0,
                   IF Len(columns) > 3 THEN columns[4][i] ELSE 255>>])

writeTableData(s, filename, columns) ==
    sogWrite(s, filename,
             [i \in 1..Len(s.indices) |->
                 LET idx == s.indices[i] + 1
                 IN  <<columns[1][idx],
                       IF Len(columns) > 1 THEN columns[2][idx] ELSE 0,
                       IF Len(columns) > 2 THEN columns[3][idx] ELSE 0,
                       IF Len(columns) > 3 THEN columns[4][idx] ELSE 255>>])

\* { '9': 1, '24': 2, '-1': 3 }[shNames.findIndex(v => !dataTable.hasColumn(v))] ?? 0
sogShBands(table) ==
    LET missing == {i \in 1..45 : shNames[i] \notin DOMAIN table}
        findIndex == IF missing = {} THEN -1
                     ELSE (CHOOSE i \in missing : \A j \in missing : i <= j) - 1
    IN  CASE findIndex = 9 -> 1
          [] findIndex = 24 -> 2
          [] findIndex = -1 -> 3
          [] OTHER -> 0

\* Math.min(64, 2 ** Math.floor(Math.log2(n / 1024))) * 1024, for n >= 1:
\* the largest power of two that is at most n, and at most 65536
paletteSizeOf(n) ==
    LET powers == {2 ^ e : e \in 0..16}
    IN  CHOOSE q \in powers : q <= n /\ \A r \in powers : r <= n => r <= q

\* the pixel of shN_labels.webp for a label
labelPixel(label) == <<label % 256, (label \div 256) % 256, 0, 255>>

----------------------------------------------------------------------------
(* The specification of writeSog: a Gaussian table without f_rest columns   *)
(* or with those of band 1, an ordering of its rows, the output filename    *)
(* and the iteration count.                                                 *)

MaxSogRows == 2

SogColumns == {"x", "y", "z", "rot_0", "rot_1", "rot_2", "rot_3",
               "scale_0", "scale_1", "scale_2", "f_dc_0", "f_dc_1", "f_dc_2", "opacity"}

\* the splats of one table differ in every scale, in opacity and in the
\* f_rest columns, or in nothing
SogTables ==
    {[name \in SogColumns \cup (IF bands = 1 THEN {shNames[j] : j \in 1..9} ELSE {}) |->
        [r \in 1..n |->
            IF ~distinct THEN 0
            ELSE CASE name = "scale_0" -> 3 * (r - 1)
                   [] name = "scale_1" -> 3 * (r - 1) + 1
                   [] name = "scale_2" -> 3 * (r - 1) + 2
                   [] name = "opacity" -> r
                   [] name \in SogColumns -> 0
                   [] OTHER -> r - 1]] :
       n \in 1..MaxSogRows, distinct \in BOOLEAN, bands \in {0, 1}}

SogRows(table) == Len(table["x"])

\* what generateIndices returns: the rows in their order or in the opposite order
SogOrderings(n) == {[i \in 1..n |-> i - 1], [i \in 1..n |-> n - i]}

InitSog ==
    /\ sog \in {[pc |-> "start", table |-> t, indices |-> ix, outputFilename |-> f,
                 shIterations |-> it, files |-> <<>>, scales |-> <<>>, sh0 |-> <<>>,
                 scaleLabels |-> <<>>, colorLabels |-> <<>>, shN |-> <<>>, scaleKmeans |-> <<>>,
                 error |-> "", closed |-> FALSE] :
                   t \in SogTables, f \in {"out.sog", "meta.json"},
                   it \in {1, 2}, ix \in UNION {SogOrderings(n) : n \in 1..MaxSogRows}}
    /\ Len(sog.indices) = SogRows(sog.table)
    /\ CombineIdle /\ ProcessIdle /\ MainIdle
    /\ PlyIdle /\ ZipIdle /\ TableIdle /\ OrderingIdle /\ KmeansIdle /\ ClusterIdle /\ SpzIdle /\ ProcIdle

OnlySog == UNCHANGED <<combineVars, processVars, mainVars, ply, zip, dt, ord, km, cl, spz, proc>>

rowPixels(s) == [i \in 1..Len(s.indices) |-> [row |-> s.indices[i]]]

SogMeansL ==
    /\ sog.pc = "start"
    /\ sog' = [sogWrite(sog, "means_l.webp", rowPixels(sog)) EXCEPT !.pc = "means_l"]
    /\ OnlySog

SogMeansU ==
    /\ sog.pc = "means_l"
    /\ sog' = [sogWrite(sog, "means_u.webp", rowPixels(sog)) EXCEPT !.pc = "means_u"]
    /\ OnlySog

SogQuats ==
    /\ sog.pc = "means_u"
    /\ sog' = [sogWrite(sog, "quats.webp", rowPixels(sog)) EXCEPT !.pc = "quats"]
    /\ OnlySog

\* cluster1d of the scales, then scales.webp; scaleKmeans keeps what kmeans
\* returned to cluster1d
SogScales ==
    /\ sog.pc = "quats"
    /\ \E chosen \in ChosenRows(3 * SogRows(sog.table), codebookSize) :
         \E scaleTable \in {ratTable(<<sog.table["scale_0"], sog.table["scale_1"], sog.table["scale_2"]>>)} :
           \E scaleData \in {cluster1d(scaleTable, sog.shIterations, chosen)},
              clustered \in {kmeans(points1d(scaleTable), codebookSize, sog.shIterations, chosen)} :
             sog' = IF "error" \in DOMAIN scaleData
                    THEN [sog EXCEPT !.pc = "threw", !.error = scaleData.error]
                    ELSE [writeTableData(sog, "scales.webp", scaleData.labels)
                              EXCEPT !.pc = "scales", !.scales = scaleData.centroids[1],
                                     !.scaleLabels = scaleData.labels,
                                     !.scaleKmeans = clustered]
    /\ OnlySog

\* cluster1d of the colours, the opacity column, then sh0.webp
SogSh0 ==
    /\ sog.pc = "scales"
    /\ \E chosen \in ChosenRows(3 * SogRows(sog.table), codebookSize) :
         \E colorData \in {cluster1d(ratTable(<<sog.table["f_dc_0"], sog.table["f_dc_1"], sog.table["f_dc_2"]>>),
                                     sog.shIterations, chosen)},
            opacityData \in {[i \in 1..SogRows(sog.table) |-> [sigmoid |-> sog.table["opacity"][i]]]} :
             sog' = IF "error" \in DOMAIN colorData
                    THEN [sog EXCEPT !.pc = "threw", !.error = colorData.error]
                    ELSE [writeTableData(sog, "sh0.webp", Append(colorData.labels, opacityData))
                              EXCEPT !.pc = "sh0", !.sh0 = colorData.centroids[1],
                                     !.colorLabels = colorData.labels]
    /\ OnlySog

\* kmeans of the f_rest columns of the whole table, cluster1d of its
\* centroids, then shN_centroids.webp
SogShNCentroids ==
    /\ sog.pc = "sh0"
    /\ sogShBands(sog.table) > 0
    /\ LET shCoeffs == <<3, 8, 15>>[sogShBands(sog.table)]
           shDataTable == tableOf([c \in 1..(shCoeffs * 3) |->
                             [r \in 1..SogRows(sog.table) |-> RatOf(sog.table[shNames[c]][r])]])
           paletteSize == paletteSizeOf(Len(sog.indices))
       IN  \E chosen \in ChosenRows(SogRows(sog.table), paletteSize) :
             \E clustered \in {kmeans(shDataTable, paletteSize, sog.shIterations, chosen)} :
               \E picked \in ChosenRows(shCoeffs * 3 * tableRows(clustered.centroids), codebookSize) :
                 \E codebook \in {cluster1d(clustered.centroids, sog.shIterations, picked)} :
                   sog' = IF "error" \in DOMAIN codebook
                          THEN [sog EXCEPT !.pc = "threw", !.error = codebook.error]
                          ELSE [sogWriteSized(sog, "shN_centroids.webp",
                                              [i \in 1..tableRows(clustered.centroids) |->
                                                  [j \in 1..shCoeffs |->
                                                      <<codebook.labels[j][i],
                                                        codebook.labels[shCoeffs + j][i],
                                                        codebook.labels[2 * shCoeffs + j][i], 255>>]],
                                              64 * shCoeffs,
                                              (tableRows(clustered.centroids) + 63) \div 64)
                                    EXCEPT !.pc = "shN_centroids",
                                           !.shN = [count |-> paletteSize,
                                                    bands |-> sogShBands(sog.table),
                                                    codebook |-> codebook.centroids[1],
                                                    labels |-> clustered.labels.data]]
    /\ OnlySog

\* shN_labels.webp: the label of row indices[i] in pixel i
SogShNLabels ==
    /\ sog.pc = "shN_centroids"
    /\ sog' = [sogWrite(sog, "shN_labels.webp",
                        [i \in 1..Len(sog.indices) |-> labelPixel(sog.shN.labels[sog.indices[i] + 1])])
                  EXCEPT !.pc = "shN_labels"]
    /\ OnlySog

\* meta.json, then the archive is closed
SogMeta ==
    /\ \/ sog.pc = "sh0" /\ sogShBands(sog.table) = 0
       \/ sog.pc = "shN_labels"
    /\ LET meta == [version |-> 2, count |-> Len(sog.indices),
                    means |-> <<"means_l.webp", "means_u.webp">>,
                    scales |-> [codebook |-> sog.scales, files |-> <<"scales.webp">>],
                    quats |-> <<"quats.webp">>,
                    sh0 |-> [codebook |-> sog.sh0, files |-> <<"sh0.webp">>],
                    shN |-> IF sog.pc = "shN_labels"
                            THEN [count |-> sog.shN.count, bands |-> sog.shN.bands,
                                  codebook |-> sog.shN.codebook,
                                  files |-> <<"shN_centroids.webp", "shN_labels.webp">>]
                            ELSE <<>>]
       IN  sog' = [sog EXCEPT !.pc = "done",
                              !.files = Append(@, [name |-> "meta.json", data |-> meta, w |-> 0, h |-> 0]),
                              !.closed = isBundle(sog.outputFilename)]
    /\ OnlySog

----------------------------------------------------------------------------
(* ZipReader.  An archive is the sequence of its bytes (0..255); positions  *)
(* are counted from 0 as in the code.                                       *)

chunk == 18     \* the 64 * 1024 bytes read at a time by the descriptor scan, scaled down

u16(n) == <<n % 256, (n \div 256) % 256>>

u32(n) == <<n % 256, (n \div 256) % 256, (n \div 65536) % 256, (n \div 16777216) % 256>>

\* dv.getUint16(offset, true)
getUint16(buf, offset) == buf[offset + 1] + 256 * buf[offset + 2]

\* dv.getUint32(offset, true)
getUint32(buf, offset) ==
    buf[offset + 1] + 256 * buf[offset + 2] + 65536 * buf[offset + 3] + 16777216 * buf[offset + 4]

localSig == <<80, 75, 3, 4>>        \* 0x04034b50
centralSig == <<80, 75, 1, 2>>      \* 0x02014b50
eocdSig == <<80, 75, 5, 6>>         \* 0x06054b50
sigBytes == <<80, 75, 7, 8>>        \* 0x08074b50

ZipNames == <<"a", "bc">>

encodeName(name) == IF name = "a" THEN <<97>> ELSE IF name = "bc" THEN <<98, 99>> ELSE <<63>>

\* new TextDecoder(..).decode(nameBytes)
decodeName(nameBytes) ==
    IF nameBytes = <<97>> THEN "a" ELSE IF nameBytes = <<98, 99>> THEN "bc" ELSE "?"

\* the crc field of an entry; the reader reads it and does not use it
crcOf(data) == 2000 + Sum(data)

RECURSIVE Flatten(_)
Flatten(ss) == IF ss = <<>> THEN <<>> ELSE ss[1] \o Flatten(Tail(ss))

\* the 30 bytes of a local file header: signature, version, flags, method,
\* time, date, crc, compressed size, size, name length, extra length
localHeader(f, useDescriptor) ==
    localSig \o u16(20) \o u16(IF useDescriptor THEN 2056 ELSE 2048) \o u16(0) \o u16(0) \o u16(0)
        \o (IF useDescriptor THEN u32(0) \o u32(0) \o u32(0)
            ELSE u32(crcOf(f.data)) \o u32(Len(f.data)) \o u32(Len(f.data)))
        \o u16(Len(encodeName(f.name))) \o u16(0)

\* the 16 bytes after the data: signature, crc, size, size
dataDescriptor(f) == sigBytes \o u32(crcOf(f.data)) \o u32(Len(f.data)) \o u32(Len(f.data))

localEntry(f, useDescriptor) ==
    localHeader(f, useDescriptor) \o encodeName(f.name) \o f.data
        \o (IF useDescriptor THEN dataDescriptor(f) ELSE <<>>)

\* the 46 bytes of a central directory header and the name
centralEntry(f, useDescriptor, offset) ==
    centralSig \o u16(20) \o u16(20) \o u16(IF useDescriptor THEN 2056 ELSE 2048) \o u16(0)
        \o u16(0) \o u16(0) \o u32(crcOf(f.data)) \o u32(Len(f.data)) \o u32(Len(f.data))
        \o u16(Len(encodeName(f.name))) \o u16(0) \o u16(0) \o u16(0) \o u16(0) \o u32(0)
        \o u32(offset) \o encodeName(f.name)

\* a STORE-only archive of the files: local entries, central directory, end record
archiveOf(files, useDescriptor) ==
    LET locals == [i \in 1..Len(files) |-> localEntry(files[i], useDescriptor)]
        offset(i) == Len(Flatten(SubSeq(locals, 1, i - 1)))
        central == Flatten([i \in 1..Len(files) |-> centralEntry(files[i], useDescriptor, offset(i))])
    IN  Flatten(locals) \o central
            \o eocdSig \o u16(0) \o u16(0) \o u16(Len(files)) \o u16(Len(files))
            \o u32(Len(central)) \o u32(Len(Flatten(locals))) \o u16(0)

\* readAt(pos, len): the bytes, or the error of a short read
readAt(bytes, pos, len) ==
    IF pos + len > Len(bytes) THEN Error("Unexpected EOF while reading ZIP")
    ELSE [buf |-> SubSeq(bytes, pos + 1, pos + len)]

\* the first i of the for loop at which the signature bytes are found in buf, or -1
searchSignature(buf) ==
    LET hits == {i \in 0..(Len(buf) - 16) :
                    /\ buf[i + 1] = sigBytes[1] /\ buf[i + 2] = sigBytes[2]
                    /\ buf[i + 3] = sigBytes[3] /\ buf[i + 4] = sigBytes[4]}
    IN  IF hits = {} THEN -1 ELSE CHOOSE i \in hits : \A j \in hits : i <= j

\* the scan for the data descriptor from pos: where it is found and the size in it
RECURSIVE scanDescriptor(_, _)
scanDescriptor(bytes, pos) ==
    IF pos >= Len(bytes) THEN Error("ZIP data descriptor not found")
    ELSE LET len == Min(chunk, Len(bytes) - pos)
             buf == SubSeq(bytes, pos + 1, pos + len)
             i == searchSignature(buf)
         IN  IF i >= 0
             THEN [endOfData |-> pos + i, size |-> getUint32(buf, i + 8)]
             ELSE scanDescriptor(bytes, pos + len)

RECURSIVE listFrom(_, _, _)
listFrom(bytes, cursor, entries) ==
    IF cursor + 30 > Len(bytes) THEN [entries |-> entries]
    ELSE
    LET header == SubSeq(bytes, cursor + 1, cursor + 30)
        sig == SubSeq(header, 1, 4)
        gpFlags == getUint16(header, 6)
        method == getUint16(header, 8)
        nameLen == getUint16(header, 26)
        extraLen == getUint16(header, 28)
        nameBytes == readAt(bytes, cursor + 30, nameLen)
        extra == readAt(bytes, cursor + 30 + nameLen, extraLen)
        useDescriptor == (gpFlags \div 8) % 2 = 1
        dataOffset == cursor + 30 + nameLen + extraLen
        size == getUint32(header, 22)
        found == scanDescriptor(bytes, dataOffset)
    IN  IF sig = centralSig \/ sig = eocdSig THEN [entries |-> entries]
        ELSE IF sig # localSig THEN [entries |-> entries]
        ELSE IF "error" \in DOMAIN nameBytes THEN nameBytes
        ELSE IF "error" \in DOMAIN extra THEN extra
        ELSE IF method # 0 THEN Error("Unsupported ZIP compression method")
        ELSE IF ~useDescriptor
             THEN listFrom(bytes, dataOffset + size,
                           Append(entries, [name |-> decodeName(nameBytes.buf), size |-> size,
                                            entryStart |-> dataOffset]))
        ELSE IF "error" \in DOMAIN found THEN found
        ELSE listFrom(bytes, found.endOfData + 16,
                      Append(entries, [name |-> decodeName(nameBytes.buf), size |-> found.size,
                                       entryStart |-> dataOffset]))

\* ZipReader.list()
list(bytes) == listFrom(bytes, 0, <<>>)

\* entry.readData()
readData(bytes, entry) == readAt(bytes, entry.entryStart, entry.size)

----------------------------------------------------------------------------
(* The specification of ZipReader: archives of one or two stored files.     *)

MaxZipData == 4     \* most bytes of a stored file

\* a file's bytes are zeros, or the bytes 50 4B 07 08 as far as its length goes
ZipContents ==
    {[i \in 1..n |-> IF plain THEN 0 ELSE sigBytes[((i - 1) % 4) + 1]] :
       n \in 0..MaxZipData, plain \in BOOLEAN}

ZipFiles ==
    {<<[name |-> ZipNames[1], data |-> d]>> : d \in ZipContents}
        \cup {<<[name |-> ZipNames[1], data |-> d], [name |-> ZipNames[2], data |-> e]>> :
                d \in ZipContents, e \in ZipContents}

InitZip ==
    /\ zip \in {[pc |-> "archive", files |-> fs, useDescriptor |-> u,
                 bytes |-> archiveOf(fs, u), listed |-> <<>>, read |-> <<>>] :
                   fs \in ZipFiles, u \in BOOLEAN}
    /\ CombineIdle /\ ProcessIdle /\ MainIdle
    /\ PlyIdle /\ SogIdle /\ TableIdle /\ OrderingIdle /\ KmeansIdle /\ ClusterIdle /\ SpzIdle /\ ProcIdle

OnlyZip == UNCHANGED <<combineVars, processVars, mainVars, ply, sog, dt, ord, km, cl, spz, proc>>

ZipList ==
    /\ zip.pc = "archive"
    /\ \E result \in {list(zip.bytes)} :
         zip' = [zip EXCEPT !.pc = IF "error" \in DOMAIN result THEN "threw" ELSE "listed",
                            !.listed = result]
    /\ OnlyZip

\* readData of the entries, in the order listed
ZipReadData ==
    /\ zip.pc = "listed"
    /\ Len(zip.read) < Len(zip.listed.entries)
    /\ zip' = [zip EXCEPT !.read = Append(@, readData(zip.bytes, zip.listed.entries[Len(zip.read) + 1]))]
    /\ OnlyZip

----------------------------------------------------------------------------
(* DataTable: the constructor, addColumn and removeColumn.  Each returns    *)
(* the column list the table holds afterwards and what the call threw or    *)
(* returned.                                                                *)

MaxColumns == 3     \* most columns addColumn builds up

\* new DataTable(columns)
newDataTable(columns) ==
    IF Len(columns) = 0 THEN Error("DataTable must have at least one column")
    ELSE IF \E i \in 2..Len(columns) : Len(columns[i].data) # Len(columns[1].data)
         THEN Error("inconsistent number of rows")
    ELSE [columns |-> columns]

\* addColumn without the check of the column's length
addColumnUnchecked(columns, column) ==
    [columns |-> Append(columns, column), threw |-> ""]

\* table.addColumn(column); this.numRows reads columns[0].data
addColumn(columns, column) ==
    IF Len(columns) = 0
    THEN [columns |-> columns, threw |-> "TypeError"]
    ELSE IF Len(column.data) # numRows(columns)
         THEN [columns |-> columns, threw |-> "inconsistent number of rows"]
    ELSE [columns |-> Append(columns, column), threw |-> ""]

\* this.columns.findIndex(column => column.name === name), from 1; 0 for -1
findIndexByName(columns, name) ==
    IF \E j \in 1..Len(columns) : columns[j].name = name
    THEN CHOOSE j \in 1..Len(columns) :
            columns[j].name = name /\ \A i \in 1..(j - 1) : columns[i].name # name
    ELSE 0

\* table.removeColumn(name)
removeColumn(columns, name) ==
    LET index == findIndexByName(columns, name)
    IN  IF index = 0 THEN [columns |-> columns, returned |-> FALSE]
        ELSE [columns |-> SubSeq(columns, 1, index - 1) \o SubSeq(columns, index + 1, Len(columns)),
              returned |-> TRUE]

----------------------------------------------------------------------------
(* The specification of DataTable: a table is constructed from a list of    *)
(* columns (dt.args, kept until the next call), columns are added and       *)
(* removed, and at last it is combined with another table.                  *)

TableColumns ==
    {Col(name, dataType, [i \in 1..n |-> Num(0)]) :
       name \in {"x", "y"}, dataType \in {"float32", "uint8"}, n \in 0..MaxRows}

ColumnLists == {<<>>} \cup {<<c>> : c \in TableColumns}
                   \cup {<<c, d>> : c \in TableColumns, d \in TableColumns}

NoCall == [op |-> "none", column |-> Col("", "", <<>>), name |-> "", threw |-> "", returned |-> FALSE]

InitTable ==
    /\ dt \in {[pc |-> "args", args |-> cs, columns |-> <<>>, prev |-> <<>>, last |-> NoCall] :
                 cs \in ColumnLists}
    /\ CombineIdle /\ ProcessIdle /\ MainIdle
    /\ PlyIdle /\ SogIdle /\ ZipIdle /\ OrderingIdle /\ KmeansIdle /\ ClusterIdle /\ SpzIdle /\ ProcIdle

OnlyTable == UNCHANGED <<combineVars, processVars, mainVars, ply, sog, zip, ord, km, cl, spz, proc>>

TableNew ==
    /\ dt.pc = "args"
    /\ \E made \in {newDataTable(dt.args)} :
         dt' = IF "error" \in DOMAIN made
               THEN [dt EXCEPT !.pc = "threw", !.last = [NoCall EXCEPT !.op = "new", !.threw = made.error]]
               ELSE [dt EXCEPT !.pc = "table", !.columns = made.columns,
                               !.last = [NoCall EXCEPT !.op = "new"]]
    /\ OnlyTable

TableAddColumn ==
    /\ dt.pc = "table"
    /\ Len(dt.columns) < MaxColumns
    /\ \E column \in TableColumns :
         \E added \in {addColumn(dt.columns, column)} :
           dt' = [dt EXCEPT !.args = <<>>, !.columns = added.columns, !.prev = dt.columns,
                            !.last = [NoCall EXCEPT !.op = "addColumn", !.column = column,
                                                    !.threw = added.threw]]
    /\ OnlyTable

TableRemoveColumn ==
    /\ dt.pc = "table"
    /\ \E name \in {"x", "y", "z"} :
         \E removed \in {removeColumn(dt.columns, name)} :
           dt' = [dt EXCEPT !.args = <<>>, !.columns = removed.columns, !.prev = dt.columns,
                            !.last = [NoCall EXCEPT !.op = "removeColumn", !.name = name,
                                                    !.returned = removed.returned]]
    /\ OnlyTable

\* combine([table, other]) of the table with another table, of one column
TableCombine ==
    /\ dt.pc = "table"
    /\ Len(dt.columns) > 0
    /\ \E column \in TableColumns :
         dt' = [dt EXCEPT !.pc = "combined", !.args = <<>>,
                          !.columns = combine(<<dt.columns, newDataTable(<<column>>).columns>>),
                          !.prev = dt.columns, !.last = [NoCall EXCEPT !.op = "combine"]]
    /\ OnlyTable

----------------------------------------------------------------------------
(* generateOrdering.  The coordinates are integers, NaN or +-Infinity.      *)

bucketLimit == 1    \* the 256 rows above which a run of equal codes is sorted again, scaled down

\* JavaScript a - b
Minus(a, b) ==
    IF a.k \in {"nan", "undef"} \/ b.k \in {"nan", "undef"} THEN NaN
    ELSE IF a.k = "inf" /\ b.k = "inf" THEN (IF a.v = b.v THEN NaN ELSE a)
    ELSE IF a.k = "inf" THEN a
    ELSE IF b.k = "inf" THEN (IF b.v > 0 THEN NInf ELSE PInf)
    ELSE Num(a.v - b.v)

getColumnByName(t, name) ==
    t[CHOOSE j \in 1..Len(t) : t[j].name = name /\ \A l \in 1..(j - 1) : t[l].name # name]

\* the bit of weight 2^b of n
bitOf(n, b) == (n \div (2 ^ b)) % 2

\* the low ten bits of x, each moved to three times its position
Part1By2(x) ==
    LET masked == x % 1024
        RECURSIVE spread(_)
        spread(b) == IF b > 9 THEN 0 ELSE bitOf(masked, b) * (8 ^ b) + spread(b + 1)
    IN  spread(0)

encodeMorton3(x, y, z) == 4 * Part1By2(z) + 2 * Part1By2(y) + Part1By2(x)

\* the smallest and the largest value of an axis over the rows of indices,
\* as the loop finds them; undefined for no row
RECURSIVE extentFrom(_, _, _, _, _)
extentFrom(data, indices, i, m, M) ==
    IF i > Len(indices) THEN [m |-> m, M |-> M]
    ELSE LET x == data[indices[i] + 1]
         IN  IF i = 1 THEN extentFrom(data, indices, i + 1, x, x)
             ELSE IF Lt(x, m) THEN extentFrom(data, indices, i + 1, x, M)
             ELSE IF Lt(M, x) THEN extentFrom(data, indices, i + 1, m, x)
             ELSE extentFrom(data, indices, i + 1, m, M)

extent(data, indices) == extentFrom(data, indices, 1, Undefined, Undefined)

\* Math.min(1023, (x - mx) * (1024 / xlen)) >>> 0
gridCoord(x, m, len) ==
    IF x.k # "num" \/ len = 0 THEN 0
    ELSE Min(1023, ((x.v - m) * 1024) \div len)

\* indices[i] = indices[order[i]] without the copy of indices
RECURSIVE reorderNoCopy(_, _, _)
reorderNoCopy(indices, order, i) ==
    IF i > Len(indices) THEN indices
    ELSE reorderNoCopy([indices EXCEPT ![i] = indices[order[i] + 1]], order, i + 1)

\* tmpIndices = indices.slice(); indices[i] = tmpIndices[order[i]]
reorder(indices, order, i) ==
    [j \in 1..Len(indices) |-> indices[order[j] + 1]] \o <<>>

\* the end of the run of equal codes that starts at start (from 0)
RECURSIVE runEnd(_, _, _)
runEnd(codes, start, end) ==
    IF end < Len(codes) /\ codes[end + 1] = codes[start + 1]
    THEN runEnd(codes, start, end + 1)
    ELSE end

RECURSIVE generate(_, _)
RECURSIVE sortBuckets(_, _, _, _, _)

\* the loop over the runs of equal codes; a run longer than bucketLimit is
\* handed to generate, and a run that is the whole array is handed to
\* generate again and again until the call stack overflows
sortBuckets(c, indices, codes, start, end) ==
    IF start >= Len(indices) THEN [indices |-> indices]
    ELSE LET e == runEnd(codes, start, end)
         IN  IF e - start <= bucketLimit THEN sortBuckets(c, indices, codes, e, e)
             ELSE IF e - start = Len(indices)
                  THEN Error("Maximum call stack size exceeded")
             ELSE The({IF "error" \in DOMAIN sub THEN sub
                       ELSE sortBuckets(c, SubSeq(indices, 1, start) \o sub.indices
                                              \o SubSeq(indices, e + 1, Len(indices)),
                                        codes, e, e) :
                         sub \in {generate(c, SubSeq(indices, start + 1, e))}})

generate(c, indices) ==
    The({LET xlen == Minus(ex.M, ex.m)
             ylen == Minus(ey.M, ey.m)
             zlen == Minus(ez.M, ez.m)
         IN  IF ~isFinite(xlen) \/ ~isFinite(ylen) \/ ~isFinite(zlen)
             THEN [indices |-> indices]
             ELSE The({The({sortBuckets(c, reorder(indices, order, 1),
                                        [i \in 1..Len(order) |-> morton[order[i] + 1]] \o <<>>, 0, 1) :
                              order \in {sortOrder([i \in 1..Len(morton) |-> RatOf(morton[i])]) \o <<>>}}) :
                         morton \in {[i \in 1..Len(indices) |->
                                        encodeMorton3(gridCoord(c.x[indices[i] + 1], ex.m.v, xlen.v),
                                                      gridCoord(c.y[indices[i] + 1], ey.m.v, ylen.v),
                                                      gridCoord(c.z[indices[i] + 1], ez.m.v, zlen.v))] \o <<>>}}) :
           ex \in {extent(c.x, indices)}, ey \in {extent(c.y, indices)}, ez \in {extent(c.z, indices)}})

generateOrdering(dataTable) ==
    generate([x |-> getColumnByName(dataTable, "x").data,
              y |-> getColumnByName(dataTable, "y").data,
              z |-> getColumnByName(dataTable, "z").data],
             [i \in 1..numRows(dataTable) |-> i - 1] \o <<>>)

----------------------------------------------------------------------------
(* The specification of generateOrdering: tables of rows (x, y, z).         *)

MaxOrderingRows == 3

OrderingPoints ==
    {<<x, y, Num(0)>> : x \in {Num(0), Num(1), Num(2048), NaN, PInf}, y \in {Num(0), Num(1)}}

OrderingTables ==
    UNION {{<<Col("x", "float32", [i \in 1..n |-> rows[i][1]]),
              Col("y", "float32", [i \in 1..n |-> rows[i][2]]),
              Col("z", "float32", [i \in 1..n |-> rows[i][3]])>> :
              rows \in [1..n -> OrderingPoints]} : n \in 0..MaxOrderingRows}

InitOrdering ==
    /\ ord \in {[pc |-> "table", table |-> t, result |-> <<>>] : t \in OrderingTables}
    /\ CombineIdle /\ ProcessIdle /\ MainIdle
    /\ PlyIdle /\ SogIdle /\ ZipIdle /\ TableIdle /\ KmeansIdle /\ ClusterIdle /\ SpzIdle /\ ProcIdle

OnlyOrdering == UNCHANGED <<combineVars, processVars, mainVars, ply, sog, zip, dt, km, cl, spz, proc>>

GenerateOrdering ==
    /\ ord.pc = "table"
    /\ \E result \in {generateOrdering(ord.table)} :
         ord' = [ord EXCEPT !.pc = IF "error" \in DOMAIN result THEN "threw" ELSE "done",
                            !.result = result]
    /\ OnlyOrdering

----------------------------------------------------------------------------
(* The specification of kmeans, one step of its loop at a time, with the    *)
(* k-d tree assignment (no device).                                         *)

MaxKmeansRows == 3

KmeansValues == {0, 1, 10}

KmeansPoints ==
    UNION {{<<[i \in 1..n |-> RatOf(column[i])]>> : column \in [1..n -> KmeansValues]} :
             n \in 1..MaxKmeansRows}

InitKmeans ==
    /\ km \in {[pc |-> "call", points |-> points, k |-> k, iterations |-> iterations,
                chosen |-> chosen, centroids |-> <<>>, before |-> <<>>, labels |-> <<>>,
                steps |-> 0, assigned |-> 0, updated |-> 0, converged |-> FALSE,
                result |-> <<>>] :
                  points \in KmeansPoints, k \in 1..MaxKmeansRows, iterations \in 0..2,
                  chosen \in UNION {ChosenRows(n, kk) : n \in 1..MaxKmeansRows, kk \in 1..MaxKmeansRows}}
    /\ km.chosen \in ChosenRows(tableRows(km.points), km.k)
    /\ CombineIdle /\ ProcessIdle /\ MainIdle
    /\ PlyIdle /\ SogIdle /\ ZipIdle /\ TableIdle /\ OrderingIdle /\ ClusterIdle /\ SpzIdle /\ ProcIdle

OnlyKmeans == UNCHANGED <<combineVars, processVars, mainVars, ply, sog, zip, dt, ord, cl, spz, proc>>

\* the 'too few data points' return, or the first centroids
KmeansCall ==
    /\ km.pc = "call"
    /\ km' = IF tableRows(km.points) < km.k
             THEN [km EXCEPT !.pc = "returned",
                             !.result = [centroids |-> km.points,
                                         labels |-> [type |-> "Array",
                                                     data |-> [i \in 1..tableRows(km.points) |-> i - 1]]]]
             ELSE [km EXCEPT !.pc = "assign",
                             !.centroids = tableOf(initializeCentroids(km.points, km.chosen)),
                             !.labels = [i \in 1..tableRows(km.points) |-> 0]]
    /\ OnlyKmeans

\* clusterKdTreeCpu(points, centroids, labels)
KmeansAssign ==
    /\ km.pc = "assign"
    /\ \E labels \in {clusterKdTreeCpu(km.points, km.centroids)} :
         km' = [km EXCEPT !.pc = "update", !.labels = labels, !.assigned = @ + 1]
    /\ OnlyKmeans

\* the new centroid positions, steps++ and the test of steps
KmeansUpdate ==
    /\ km.pc = "update"
    /\ \E updated \in {updateCentroids(km.points, km.k, km.labels)} :
         km' = [km EXCEPT !.pc = IF km.steps + 1 >= km.iterations THEN "converged" ELSE "assign",
                          !.before = km.centroids,
                          !.centroids = updated,
                          !.steps = @ + 1,
                          !.updated = @ + 1,
                          !.converged = km.steps + 1 >= km.iterations]
    /\ OnlyKmeans

KmeansReturn ==
    /\ km.pc = "converged"
    /\ km' = [km EXCEPT !.pc = "returned",
                        !.result = [centroids |-> km.centroids,
                                    labels |-> [type |-> "Uint32Array", data |-> km.labels]]]
    /\ OnlyKmeans

----------------------------------------------------------------------------
(* The assignment step of kmeans by its three backends: the exhaustive scan *)
(* clusterCpu, the k-d tree and the compute shader of GpuClustering (the    *)
(* f32 shader; values are exact).                                           *)

\* clusterCpu: for each point the first centroid at the least distance
\* below Infinity; mini stays -1 if there is no centroid
clusterCpu(points, centroids) ==
    [i \in 1..tableRows(points) |->
        LET d(j) == calcDistance(centroids, pointOf(points, i - 1), j - 1)
            K == tableRows(centroids)
        IN  IF K = 0 THEN -1
            ELSE (CHOOSE j \in 1..K :
                    /\ \A l \in 1..K : ~RatLt(d(l), d(j))
                    /\ \A l \in 1..(j - 1) : RatLt(d(j), d(l))) - 1] \o <<>>

workgroupSize == 2          \* the 64 invocations of a workgroup, scaled down
workgroupsPerBatch == 1     \* the 1024 workgroups of a batch, scaled down
rowsPerInvocation == 2      \* chunkSize / 64u: the centroid rows each invocation copies

gpuChunkSize == rowsPerInvocation * workgroupSize

batchSize == workgroupsPerBatch * workgroupSize

farthest == 1000000         \* var mind = 1000000.0

\* result[r * numColumns + c] = column.data[rowOffset + r], indices from 0
interleaveData(dataTable, nRows, rowOffset) ==
    [p \in 1..(nRows * Len(dataTable)) |->
        dataTable[((p - 1) % Len(dataTable)) + 1][rowOffset + ((p - 1) \div Len(dataTable)) + 1]] \o <<>>

CeilDiv(a, b) == (a + b - 1) \div b

\* the shared memory after the invocations of a workgroup have copied their
\* slices of chunk i: position -> value, the positions no invocation wrote
\* are missing
sharedChunk(centroidsBuffer, numColumns, numCentroids, i) ==
    LET srcRow(local_id) == Min(numCentroids, i * gpuChunkSize + (local_id * gpuChunkSize) \div workgroupSize)
        numRowsOf(local_id) == Min(numCentroids, srcRow(local_id) + (gpuChunkSize \div workgroupSize)) - srcRow(local_id)
        dst(local_id) == local_id * (gpuChunkSize \div workgroupSize) * numColumns
        written == {<<dst(local_id) + c, srcRow(local_id) * numColumns + c>> :
                       local_id \in 0..(workgroupSize - 1),
                       c \in 0..(rowsPerInvocation * numColumns - 1)}
        valid == {w \in written :
                    \E local_id \in 0..(workgroupSize - 1) :
                        /\ w[1] - dst(local_id) = w[2] - srcRow(local_id) * numColumns
                        /\ w[1] - dst(local_id) \in 0..(numRowsOf(local_id) * numColumns - 1)}
    IN  [pos \in {w[1] : w \in valid} |-> centroidsBuffer[(CHOOSE w \in valid : w[1] = pos)[2] + 1]]

\* calcDistanceSqr(point, centroid) of the shader
calcDistanceSqr(point, shared, numColumns, centroid) ==
    SumRat([i \in 1..numColumns |->
               LET v == RatSub(point[i], shared[centroid * numColumns + i - 1])
               IN  RatMul(v, v)])

\* the loop of one invocation over the centroids of chunk i
RECURSIVE chunkLoop(_, _, _, _, _, _, _)
chunkLoop(point, shared, numColumns, first, c, thisChunkSize, st) ==
    IF c >= thisChunkSize THEN st
    ELSE LET d == calcDistanceSqr(point, shared, numColumns, c)
         IN  chunkLoop(point, shared, numColumns, first, c + 1, thisChunkSize,
                       IF RatLt(d, st.mind) THEN [mind |-> d, mini |-> first + c] ELSE st)

RECURSIVE chunksLoop(_, _, _, _, _, _)
chunksLoop(point, centroidsBuffer, numColumns, numCentroids, i, st) ==
    IF i >= CeilDiv(numCentroids, gpuChunkSize) THEN st
    ELSE chunksLoop(point, centroidsBuffer, numColumns, numCentroids, i + 1,
                    chunkLoop(point, sharedChunk(centroidsBuffer, numColumns, numCentroids, i),
                              numColumns, i * gpuChunkSize, 0,
                              Min(gpuChunkSize, numCentroids - i * gpuChunkSize), st))

\* main of the shader for the invocation of point pointIndex: results[pointIndex]
clusterWgsl(pointsBuffer, centroidsBuffer, numColumns, numCentroids, pointIndex) ==
    chunksLoop([i \in 1..numColumns |-> pointsBuffer[pointIndex * numColumns + i]],
               centroidsBuffer, numColumns, numCentroids, 0,
               [mind |-> RatOf(farthest), mini |-> 0]).mini

\* one pass of the loop of execute: the labels with those of the batch set
executeBatch(points, centroids, labels, batch) ==
    The({The({The({[i \in 1..Len(labels) |->
                      IF i - 1 \in (batch * batchSize)..(batch * batchSize + currentBatchSize - 1)
                      THEN clusterWgsl(interleavedPoints, interleavedCentroids, Len(points),
                                       tableRows(centroids), i - 1 - batch * batchSize)
                      ELSE labels[i]] \o <<>> :
                     interleavedPoints \in {interleaveData(points, currentBatchSize, batch * batchSize)}}) :
                interleavedCentroids \in {interleaveData(centroids, tableRows(centroids), 0)}}) :
           currentBatchSize \in {Min(tableRows(points) - batch * batchSize, batchSize)}})

MaxClusterRows == 3

\* the centroid tables: every table of 1..MaxClusterRows rows of one or two columns
CentroidRows(D) ==
    IF D = 1 THEN {<<RatOf(x)>> : x \in {0, 1, 2000}}
    ELSE {<<RatOf(0), RatOf(0)>>, <<RatOf(1), RatOf(1)>>, <<RatOf(2000), RatOf(0)>>, <<RatOf(0), RatOf(1)>>}

CentroidTables(D) ==
    UNION {{tableOf([c \in 1..D |-> [r \in 1..n |-> rows[r][c]]]) :
              rows \in [1..n -> CentroidRows(D)]} : n \in 1..MaxClusterRows}

\* the point tables: 1..MaxClusterRows rows that follow each other in this list
QueryPoints ==
    <<<<0, 0>>, <<3000, 1>>, <<1, 0>>, <<2000, 1>>, <<2, 1>>>>

PointTables(D) ==
    {tableOf([c \in 1..D |->
                [r \in 1..n |-> RatOf(QueryPoints[((first + r - 2) % Len(QueryPoints)) + 1][c])]]) :
       n \in 1..MaxClusterRows, first \in 1..Len(QueryPoints)}

ClusterInputs ==
    UNION {{[points |-> points, centroids |-> centroids] :
              points \in PointTables(D), centroids \in CentroidTables(D)} : D \in 1..2}

InitCluster ==
    /\ cl \in {[pc |-> "cpu", points |-> in.points, centroids |-> in.centroids,
                cpu |-> <<>>, kd |-> <<>>, gpu |-> <<>>, batch |-> 0] : in \in ClusterInputs}
    /\ CombineIdle /\ ProcessIdle /\ MainIdle
    /\ PlyIdle /\ SogIdle /\ ZipIdle /\ TableIdle /\ OrderingIdle /\ KmeansIdle /\ SpzIdle /\ ProcIdle

OnlyCluster == UNCHANGED <<combineVars, processVars, mainVars, ply, sog, zip, dt, ord, km, spz, proc>>

ClusterCpu ==
    /\ cl.pc = "cpu"
    /\ \E labels \in {clusterCpu(cl.points, cl.centroids)} :
         cl' = [cl EXCEPT !.pc = "kd", !.cpu = labels]
    /\ OnlyCluster

ClusterKdTreeCpu ==
    /\ cl.pc = "kd"
    /\ \E labels \in {clusterKdTreeCpu(cl.points, cl.centroids)} :
         cl' = [cl EXCEPT !.pc = "gpu", !.kd = labels,
                          !.gpu = [i \in 1..tableRows(cl.points) |-> 0]]
    /\ OnlyCluster

\* one batch of GpuClustering.execute
ClusterGpuBatch ==
    /\ cl.pc = "gpu"
    /\ \E labels \in {executeBatch(cl.points, cl.centroids, cl.gpu, cl.batch)} :
         cl' = [cl EXCEPT !.gpu = labels,
                          !.batch = @ + 1,
                          !.pc = IF cl.batch + 1 < CeilDiv(tableRows(cl.points), batchSize)
                                 THEN "gpu" ELSE "done"]
    /\ OnlyCluster

----------------------------------------------------------------------------
(* readSpz.  The file is its header fields and the bytes that follow the    *)
(* 16-byte header.  A decoded number is kept as the exact term the code     *)
(* computes: small(m) is SQRT1_2 * m / 511, sqrtOf(s) is                    *)
(* sqrt(1 - s / (2 * 511 * 511)), norm(v) is v / 127.5 - 1.  No norm(v) of  *)
(* a byte or of a component equals v, so different terms are different      *)
(* numbers wherever the claims compare them.                               *)

HARMONICS_COMPONENT_COUNT == <<0, 9, 24, 45>>

small(m) == [k |-> "small", m |-> m]

sqrtOf(s) == [k |-> "sqrt", s |-> s]

byteValue(b) == [k |-> "byte", b |-> b]

norm(v) == [k |-> "norm", of |-> v]

\* the sizes and offsets of the rotation and SH views, offsets counted
\* from the end of the header
spzViews(numSplats, shDegree) ==
    LET positionsByteSize == numSplats * 3 * 3
        alphasByteSize == numSplats
        colorsByteSize == numSplats * 3
        scalesByteSize == numSplats * 3
        rotationsByteSize == numSplats * 3
        shByteSize == numSplats * HARMONICS_COMPONENT_COUNT[shDegree + 1]
        rotationsOffset == positionsByteSize + alphasByteSize + colorsByteSize + scalesByteSize
    IN  [rotationsOffset |-> rotationsOffset, rotationsByteSize |-> rotationsByteSize,
         shOffset |-> rotationsOffset + rotationsByteSize, shByteSize |-> shByteSize]

\* view.getUint8(offset)
getUint8(body, viewOffset, offset) == body[viewOffset + offset + 1]

\* bit j of view.getUint32(offset), the first byte the most significant; the
\* signed shifts of the decoder copy bit 31 into the bits above it
wordBit(body, viewOffset, offset, j) ==
    LET b == IF j > 31 THEN 31 ELSE j
    IN  (getUint8(body, viewOffset, offset + 3 - (b \div 8)) \div (2 ^ (b % 8))) % 2

\* field n of the word after n shifts by 10: mag and negbit
rotField(body, viewOffset, offset, n) ==
    [mag |->
             wordBit(body, viewOffset, offset, 10 * n) +
             2 * wordBit(body, viewOffset, offset, 10 * n + 1) +
             4 * wordBit(body, viewOffset, offset, 10 * n + 2) +
             8 * wordBit(body, viewOffset, offset, 10 * n + 3) +
             16 * wordBit(body, viewOffset, offset, 10 * n + 4) +
             32 * wordBit(body, viewOffset, offset, 10 * n + 5) +
             64 * wordBit(body, viewOffset, offset, 10 * n + 6) +
             128 * wordBit(body, viewOffset, offset, 10 * n + 7) +
             256 * wordBit(body, viewOffset, offset, 10 * n + 8),
     negbit |-> wordBit(body, viewOffset, offset, 10 * n + 9)]

\* packedRotation >> 30 of the signed 32-bit value
largestRotIndexOf(body, viewOffset, offset) ==
    wordBit(body, viewOffset, offset, 30) - 2 * wordBit(body, viewOffset, offset, 31)

\* the version 3 branch: rotation[0..3] decoded from the word at a byte
\* offset of the view; an index outside 0..3 names no element of the array
decodeSmallestThree(body, viewOffset, offset) ==
    LET largestRotIndex == largestRotIndexOf(body, viewOffset, offset)
        \* the number of fields taken before component i, i counted down from 3
        before(i) == Cardinality({j \in (i + 1)..3 : j # largestRotIndex})
        field(i) == rotField(body, viewOffset, offset, before(i))
        signed(i) == IF field(i).negbit = 1 THEN -field(i).mag ELSE field(i).mag
        sum_squares == Sum([i \in 1..4 |->
                              IF i - 1 # largestRotIndex THEN field(i - 1).mag * field(i - 1).mag ELSE 0])
    IN  [i \in 1..4 |-> IF i - 1 = largestRotIndex THEN sqrtOf(sum_squares) ELSE small(signed(i - 1))]

\* rot: the rotation of one splat as readSpz stores it in rot_0..rot_3
spzRotation(version, body, views, splatIndex) ==
    IF version = 2
    THEN LET b == [i \in 1..3 |-> getUint8(body, views.rotationsOffset, splatIndex * 3 + i - 1)]
         IN  [rot |-> <<[k |-> "w", of |-> b], norm(byteValue(b[1])), norm(byteValue(b[2])),
                        norm(byteValue(b[3]))>>]
    ELSE IF splatIndex + 4 > views.rotationsByteSize
         THEN Error("Offset is outside the bounds of the DataView")
         ELSE LET rotation == decodeSmallestThree(body, views.rotationsOffset, splatIndex)
              IN  [rot |-> <<norm(rotation[1]), norm(rotation[2]), norm(rotation[3]), norm(rotation[4])>>]

\* the bytes of the SH view read for one splat, in column order
spzHarmonics(body, views, shDegree, splatIndex) ==
    LET harmonicsComponentCount == HARMONICS_COMPONENT_COUNT[shDegree + 1]
        third == harmonicsComponentCount \div 3
    IN  [col \in 1..harmonicsComponentCount |->
           LET i == CHOOSE i \in 0..(harmonicsComponentCount - 1) :
                       (i % 3) * third + (i \div 3) = col - 1
           IN  getUint8(body, views.shOffset, splatIndex * harmonicsComponentCount + i)]

MaxSpzSplats == 2

\* packed rotations: index 0 with no magnitude, index 1, index 3 (the sign
\* bit of the word set) and index 2 with all fields set
RotationWords == {<<0, 0, 0, 0>>, <<64, 16, 8, 3>>, <<192, 0, 4, 1>>, <<191, 255, 255, 255>>}

\* the bytes after the header of a file with the given rotation bytes: the
\* position, alpha, colour and scale blocks, the rotation block, then the SH
\* block, whose byte for component i of splat s is 100 + 9 * s + i
spzBody(numSplats, shDegree, rotations) ==
    [i \in 1..(16 * numSplats) |-> 0] \o rotations \o
    [i \in 1..(numSplats * HARMONICS_COMPONENT_COUNT[shDegree + 1]) |-> 100 + i - 1]

SpzFiles ==
    UNION {{[version |-> version, numSplats |-> n, shDegree |-> shDegree,
             body |-> spzBody(n, shDegree,
                              IF version = 2
                              THEN Flatten([s \in 1..n |-> SubSeq(words[s], 1, 3)])
                              ELSE Flatten(words))] :
              version \in {2, 3, 4}, shDegree \in {0, 1},
              words \in [1..n -> RotationWords]} : n \in 1..MaxSpzSplats}

InitSpz ==
    /\ spz \in {[pc |-> "file", file |-> f, views |-> <<>>, splatIndex |-> 0,
                 rotations |-> <<>>, harmonics |-> <<>>, error |-> ""] : f \in SpzFiles}
    /\ CombineIdle /\ ProcessIdle /\ MainIdle
    /\ PlyIdle /\ SogIdle /\ ZipIdle /\ TableIdle /\ OrderingIdle /\ KmeansIdle /\ ClusterIdle
    /\ ProcIdle

OnlySpz == UNCHANGED <<combineVars, processVars, mainVars, ply, sog, zip, dt, ord, km, cl, proc>>

\* the header is parsed and the views are laid over the buffer
SpzHeader ==
    /\ spz.pc = "file"
    /\ spz' = IF ~(spz.file.version = 2 \/ spz.file.version = 3)
              THEN [spz EXCEPT !.pc = "threw", !.error = "Unsupported version"]
              ELSE [spz EXCEPT !.pc = "splats",
                               !.views = spzViews(spz.file.numSplats, spz.file.shDegree)]
    /\ OnlySpz

\* one turn of the loop over the splats
SpzSplat ==
    /\ spz.pc = "splats"
    /\ spz.splatIndex < spz.file.numSplats
    /\ \E rotation \in {spzRotation(spz.file.version, spz.file.body, spz.views, spz.splatIndex)} :
         spz' = IF "error" \in DOMAIN rotation
                THEN [spz EXCEPT !.pc = "threw", !.error = rotation.error]
                ELSE [spz EXCEPT !.splatIndex = @ + 1,
                                 !.rotations = Append(@, rotation.rot),
                                 !.harmonics = Append(@, spzHarmonics(spz.file.body, spz.views,
                                                                     spz.file.shDegree, spz.splatIndex))]
    /\ OnlySpz

\* the table is returned
SpzReturn ==
    /\ spz.pc = "splats"
    /\ spz.splatIndex = spz.file.numSplats
    /\ spz' = [spz EXCEPT !.pc = "done"]
    /\ OnlySpz

----------------------------------------------------------------------------
(* process, the function that filters with DataTable.filter.  Its result is *)
(* a table or null: [null |-> FALSE, table |-> t] or Null.                  *)

Null == [null |-> TRUE, table |-> <<>>]

TableRef(t) == [null |-> FALSE, table |-> t]

\* Column.filter(length, filter) of every column
columnsFilter(t, flags) ==
    [c \in 1..Len(t) |->
        Col(t[c].name, t[c].dataType,
            The({[j \in 1..Len(kept) |-> t[c].data[kept[j]]] :
                   kept \in {collectIndices(flags, 1, Len(t[c].data))}}))]

\* DataTable.filter(predicate); flags[i] is predicate(i, row i)
dataTableFilter(t, flags) ==
    LET kept == Cardinality({i \in 1..numRows(t) : flags[i]})
    IN  IF kept = 0 THEN Null
        ELSE IF kept = numRows(t) THEN TableRef(t)
        ELSE TableRef(columnsFilter(t, flags))

\* one turn of the loop of process: the new result, or the TypeError of a
\* property read on null
processCase(dataTable, result, a) ==
    CASE a.kind = "filterNaN" ->
            IF result.null THEN Error("Cannot read properties of null (reading 'filter')")
            ELSE dataTableFilter(result.table,
                                 [i \in 1..numRows(result.table) |-> predicateNaN(result.table, i)])
      [] a.kind = "filterByValue" ->
            IF result.null THEN Error("Cannot read properties of null (reading 'filter')")
            ELSE dataTableFilter(result.table,
                                 [i \in 1..numRows(result.table) |->
                                     Predicates(a.comparator, getRow(result.table, i, a.columnName), a.value)])
      [] a.kind = "filterBands" ->
            IF a.value.v < bandsOf(dataTable)
            THEN IF result.null THEN Error("Cannot read properties of null (reading 'columns')")
                 ELSE TableRef(filterBands(dataTable, result.table, a.value.v))
            ELSE result
      [] OTHER -> result

\* combine(dataTables) of tables that may be null
combineRefs(refs) ==
    IF Len(refs) = 1 THEN refs[1]
    ELSE IF \E i \in 1..Len(refs) : refs[i].null
         THEN Error("Cannot read properties of null (reading 'columns')")
         ELSE TableRef(combine([i \in 1..Len(refs) |-> refs[i].table]))

MaxActions == 2     \* most process actions of one run

\* the tables process is run on: rows of every type, tables without SH
\* coefficients and with those of one band, and the table of scenario E4
ProcTables == ValueTables \cup {ShTable(n) : n \in {0, 9, 10}} \cup {E4Table}

InitProc ==
    /\ proc \in {[pc |-> "loop", dataTable |-> t, result |-> TableRef(t), actions |-> <<>>,
                  error |-> ""] : t \in ProcTables}
    /\ CombineIdle /\ ProcessIdle /\ MainIdle
    /\ PlyIdle /\ SogIdle /\ ZipIdle /\ TableIdle /\ OrderingIdle /\ KmeansIdle /\ ClusterIdle
    /\ SpzIdle

OnlyProc == UNCHANGED <<combineVars, processVars, mainVars, ply, sog, zip, dt, ord, km, cl, spz>>

\* one turn of the loop of process on the action a; actions keeps the kinds
\* of the actions run
ProcTurn(a) ==
    /\ proc.pc = "loop"
    /\ Len(proc.actions) < MaxActions
    /\ \E result \in {processCase(proc.dataTable, proc.result, a)} :
         proc' = IF "error" \in DOMAIN result
                 THEN [proc EXCEPT !.pc = "threw", !.error = result.error,
                                   !.actions = Append(@, a.kind)]
                 ELSE [proc EXCEPT !.result = result, !.actions = Append(@, a.kind)]
    /\ OnlyProc

ProcFilterNaN == ProcTurn(Act("filterNaN", "", "", Num(0)))

ProcFilterByValue ==
    \E columnName \in FilterColumns, comparator \in Comparators, value \in FilterValues :
        ProcTurn(Act("filterByValue", columnName, comparator, value))

ProcFilterBands ==
    \E outputBands \in 0..3 : ProcTurn(Act("filterBands", "", "", Num(outputBands)))

\* process returns its result
ProcReturn ==
    /\ proc.pc = "loop"
    /\ proc' = [proc EXCEPT !.pc = "returned"]
    /\ OnlyProc

\* main combines the result with the table of a second file, or takes it alone
ProcCombine ==
    /\ proc.pc = "returned"
    /\ \E refs \in {<<proc.result>>, <<proc.result, TableRef(proc.dataTable)>>} :
         \E combined \in {combineRefs(refs)} :
           proc' = IF "error" \in DOMAIN combined
                   THEN [proc EXCEPT !.pc = "threw", !.error = combined.error]
                   ELSE [proc EXCEPT !.pc = "combined", !.result = combined]
    /\ OnlyProc

----------------------------------------------------------------------------
(* Specifications *)

NextCombine == Combine

SpecCombine == InitCombine /\ [][NextCombine]_vars

NextProcess == FilterNaN \/ FilterByValue \/ FilterBands \/ Param

SpecProcess == InitProcess /\ [][NextProcess]_vars

NextMain ==
    \/ ParseArguments \/ Usage \/ OutputExists \/ StartReading
    \/ TaskOpen \/ TaskOpenFail \/ TaskRead \/ TaskReadFail
    \/ TaskProcess \/ TaskUnsupported \/ CombineAndProcess
    \/ OpenTmp \/ OpenTmpFail \/ WriteSogImage \/ WriteSogMeta
    \/ WritePart \/ WriteRest \/ WriteFail
    \/ Sync \/ SyncFail \/ Rename \/ RenameFail \/ OtherCreates

SpecMain == InitMain /\ [][NextMain]_vars

NextPly == PlyWrite \/ PlyTruncate \/ PlyRead \/ PlyToolWrite

SpecPly == InitPly /\ [][NextPly]_vars

NextSog ==
    \/ SogMeansL \/ SogMeansU \/ SogQuats \/ SogScales \/ SogSh0
    \/ SogShNCentroids \/ SogShNLabels \/ SogMeta

SpecSog == InitSog /\ [][NextSog]_vars

NextZip == ZipList \/ ZipReadData

SpecZip == InitZip /\ [][NextZip]_vars

NextTable == TableNew \/ TableAddColumn \/ TableRemoveColumn \/ TableCombine

SpecTable == InitTable /\ [][NextTable]_vars

NextOrdering == GenerateOrdering

SpecOrdering == InitOrdering /\ [][NextOrdering]_vars

NextKmeans == KmeansCall \/ KmeansAssign \/ KmeansUpdate \/ KmeansReturn

SpecKmeans == InitKmeans /\ [][NextKmeans]_vars

NextCluster == ClusterCpu \/ ClusterKdTreeCpu \/ ClusterGpuBatch

SpecCluster == InitCluster /\ [][NextCluster]_vars

NextSpz == SpzHeader \/ SpzSplat \/ SpzReturn

SpecSpz == InitSpz /\ [][NextSpz]_vars

NextProc == ProcFilterNaN \/ ProcFilterByValue \/ ProcFilterBands \/ ProcReturn \/ ProcCombine

SpecProc == InitProc /\ [][NextProc]_vars

Init == InitMain
Next == NextMain
Spec == SpecMain

----------------------------------------------------------------------------
(* Claims about combine, checked under SpecCombine *)

TableKeys(t) == [j \in 1..Len(t) |-> <<t[j].name, t[j].dataType>>]

\* the n-th smallest element of a set of integers
Nth(S, n) == CHOOSE i \in S : Cardinality({l \in S : l <= i}) = n

\* the elements of a sequence at the positions of S, in order
Pick(seq, S) == [n \in 1..Cardinality(S) |-> seq[Nth(S, n)]]

\* a sequence without the later occurrences of each element
FirstSeen(seq) ==
    Pick(seq, {i \in 1..Len(seq) : \A l \in 1..(i-1) : seq[l] # seq[i]})

RECURSIVE RowsBefore(_, _)
RowsBefore(tables, k) ==
    IF k <= 1 THEN 0 ELSE RowsBefore(tables, k - 1) + Len(tables[k - 1][1].data)

\* C1: combine of two or more tables returns a table whose row count is the
\* sum of the input row counts and whose columns are the first-seen union of
\* the inputs' columns keyed by (name, element type), in order of first
\* appearance.
C1_CombineUnion ==
    (cPc = "done" /\ Len(cDataTables) >= 2) =>
        /\ \A j \in 1..Len(cResult) :
               Len(cResult[j].data) = RowsBefore(cDataTables, Len(cDataTables) + 1)
        /\ TableKeys(cResult) = FirstSeen(TableKeys(FlattenColumns(cDataTables)))

\* a combine of three tables in which a later table repeats a column of an
\* earlier one, adds one that differs only in type, and adds a new name
C1_Witness ==
    /\ cPc = "done"
    /\ Len(cDataTables) = 3
    /\ TableKeys(cDataTables[1]) = << <<"x", "float32">> >>
    /\ TableKeys(cDataTables[2]) = << <<"x", "uint8">>, <<"y", "float32">> >>
    /\ TableKeys(cDataTables[3]) = << <<"y", "float32">>, <<"x", "float32">> >>
    /\ Len(cResult) = 3

\* C2: the rows of input k occupy the contiguous range that starts at the sum
\* of the row counts of the inputs before it, in their original order; an
\* output column holds the input's value where the input has a column of the
\* same (name, type) and zero where it has none.
C2_CombineRows ==
    (cPc = "done" /\ Len(cDataTables) >= 2) =>
        \A k \in 1..Len(cDataTables) :
            \A r \in 1..Len(cDataTables[k][1].data) :
                \A j \in 1..Len(cResult) :
                    LET t == cDataTables[k]
                        src == {c \in 1..Len(t) : t[c].name = cResult[j].name
                                                  /\ t[c].dataType = cResult[j].dataType}
                        cell == cResult[j].data[RowsBefore(cDataTables, k) + r]
                    IN IF src = {} THEN cell = Num(0)
                       ELSE \A c \in src : cell = t[c].data[r]

\* three inputs of two rows each, the second lacking a column of the result
C2_Witness ==
    /\ cPc = "done"
    /\ Len(cDataTables) = 3
    /\ \A k \in 1..3 : Len(cDataTables[k][1].data) = 2
    /\ TableKeys(cDataTables[1]) = << <<"x", "float32">>, <<"y", "float32">> >>
    /\ TableKeys(cDataTables[2]) = << <<"y", "float32">> >>
    /\ cResult[1].data[3] = Num(0)
    /\ cResult[2].data[4] = cDataTables[2][1].data[2]
    /\ cResult[1].data[6] = cDataTables[3][1].data[2]

----------------------------------------------------------------------------
(* Claims about processDataTable, checked under SpecProcess *)

\* the table made of the rows of t at the positions of S, in order
RowsOf(t, S) == [c \in 1..Len(t) |-> Col(t[c].name, t[c].dataType, Pick(t[c].data, S))]

FiniteRows(t) ==
    {i \in 1..Len(t[1].data) : \A c \in 1..Len(t) : t[c].data[i].k = "num"}

\* the rows without a non-finite value, not counting an opacity of +-Infinity
\* or a scale_0, scale_1, scale_2 of -Infinity
TolerantRows(t) ==
    {i \in 1..Len(t[1].data) :
        \A c \in 1..Len(t) :
            \/ t[c].data[i].k = "num"
            \/ t[c].name = "opacity" /\ t[c].data[i].k = "inf"
            \/ t[c].name \in {"scale_0", "scale_1", "scale_2"} /\ t[c].data[i] = NInf}

\* C3 as stated: filterNaN drops exactly the rows that contain a non-finite
\* value, except that an opacity of +-Infinity and a scale of -Infinity do
\* not drop a row; the 4-row table of scenario E4 keeps 3 rows.
C3_Original ==
    pLast.kind = "filterNaN" =>
        /\ pResult = RowsOf(pPrev, TolerantRows(pPrev))
        /\ pPrev = E4Table => Len(pResult[1].data) = 3

\* C3 as amended: filterNaN drops exactly the rows that contain a non-finite
\* (NaN or infinite) value in some column, opacity and scale columns
\* included, and keeps the other rows in order; the 4-row table of scenario
\* E4 keeps 2 rows.
C3_FilterNaN ==
    pLast.kind = "filterNaN" =>
        /\ pResult = RowsOf(pPrev, FiniteRows(pPrev))
        /\ pPrev = E4Table => Len(pResult[1].data) = 2

\* filterNaN has run on the table of scenario E4 and dropped the NaN row and
\* the row whose opacity is -Infinity
C3_Witness ==
    /\ pLast.kind = "filterNaN"
    /\ pPrev = E4Table
    /\ pResult = RowsOf(E4Table, {3, 4})

\* the comparison of a cell with the value, as JavaScript evaluates it
Holds(comparator, a, v) ==
    CASE comparator = "lt" -> Lt(a, v)
      [] comparator = "lte" -> Lt(a, v) \/ StrictEq(a, v)
      [] comparator = "gt" -> Lt(v, a)
      [] comparator = "gte" -> Lt(v, a) \/ StrictEq(a, v)
      [] comparator = "eq" -> StrictEq(a, v)
      [] comparator = "neq" -> ~StrictEq(a, v)

ComparedRows(t, columnName, comparator, v) ==
    {i \in 1..Len(t[1].data) :
        \E c \in 1..Len(t) : t[c].name = columnName /\ Holds(comparator, t[c].data[i], v)}

\* C4 as stated: filterByValue drops the rows where the comparison is false,
\* and keeps all rows when col is not a column of the table, for every
\* comparator and value.
C4_Original ==
    pLast.kind = "filterByValue" =>
        IF hasColumn(pPrev, pLast.columnName)
        THEN pResult = RowsOf(pPrev, ComparedRows(pPrev, pLast.columnName, pLast.comparator, pLast.value))
        ELSE pResult = pPrev

\* C4 as amended: filterByValue keeps exactly the rows where the comparison
\* is true, in order; when col is not a column of the table the comparators
\* lt, lte, gt, gte and eq drop every row and neq keeps every row.
C4_FilterByValue ==
    pLast.kind = "filterByValue" =>
        IF hasColumn(pPrev, pLast.columnName)
        THEN pResult = RowsOf(pPrev, ComparedRows(pPrev, pLast.columnName, pLast.comparator, pLast.value))
        ELSE IF pLast.comparator = "neq" THEN pResult = pPrev
             ELSE pResult = RowsOf(pPrev, {})

\* filterByValue with lt on a name that is no column has emptied a 2-row table
C4_Witness ==
    /\ pLast.kind = "filterByValue"
    /\ pLast.columnName = "nope"
    /\ pLast.comparator = "lt"
    /\ Len(pPrev[1].data) = 2
    /\ Len(pResult[1].data) = 0

\* the rows of t for which the comparison of the action holds
KeptRows(t, a) ==
    {i \in 1..numRows(t) : Holds(a.comparator, getRow(t, i, a.columnName), a.value)}

C19_Step ==
    pLast'.kind = "filterByValue" =>
        /\ pPrev' = pResult
        /\ pDataTable' = pDataTable
        /\ pResult' = RowsOf(pResult, KeptRows(pResult, pLast'))
        /\ pResult' = processAction(pDataTable', pPrev', pLast')

ShNameSet == {shNames[n] : n \in 1..45}

NotSh(c) == c.name \notin ShNameSet

IsSh(c) == c.name \in ShNameSet

ColumnData(t, name) == t[CHOOSE c \in 1..Len(t) : t[c].name = name].data

\* C5: filterBands(N) applied at any position of an action sequence to a
\* table that then has B > N bands yields exactly 3*C(N) f_rest columns named
\* f_rest_0 .. f_rest_(3*C(N)-1), new column k + j*C(N) carrying the values of
\* old column k + j*C(B), every other column unchanged; when N >= B the table
\* is unchanged.
C5_FilterBands ==
    pLast.kind = "filterBands" =>
        LET B == bandsOf(pPrev)
            N == pLast.value.v
            CB == coeffs[B + 1]
            CN == coeffs[N + 1]
        IN IF B > N
           THEN /\ Len(SelectSeq(pResult, IsSh)) = 3 * CN
                /\ {pResult[c].name : c \in {c \in 1..Len(pResult) : IsSh(pResult[c])}}
                       = {shNames[n] : n \in 1..(3 * CN)}
                /\ \A k \in 0..(CN - 1), j \in 0..2 :
                       ColumnData(pResult, shNames[k + j * CN + 1])
                           = ColumnData(pPrev, shNames[k + j * CB + 1])
                /\ SelectSeq(pResult, NotSh) = SelectSeq(pPrev, NotSh)
           ELSE pResult = pPrev

----------------------------------------------------------------------------
(* Claims about a run of main, checked under SpecMain *)

Positionals == {i \in 1..Len(mTokens) : mTokens[i].kind = "positional"}

\* the options that stand for an action on a table (a params option only
\* passes parameters to a generator script)
TableOptions == {"filterNaN", "filterBands"}

\* the positions of the table options after the k-th positional argument and
\* before the next one
Segment(k) ==
    {i \in 1..Len(mTokens) :
        /\ mTokens[i].kind = "option" /\ mTokens[i].name \in TableOptions
        /\ i > Nth(Positionals, k)
        /\ k < Cardinality(Positionals) => i < Nth(Positionals, k + 1)}

ExpectedKinds(k) == [n \in 1..Cardinality(Segment(k)) |-> mTokens[Nth(Segment(k), n)].name]

InSeq(x, seq) == \E n \in 1..Len(seq) : seq[n] = x

\* C6: the actions applied to a file's table are exactly the action options
\* between that file's positional argument and the next one, in command line
\* order; the output's actions are applied to the combined table after every
\* input has been processed.
C6_ActionOrder ==
    /\ \A k \in 1..Len(mApplied) :
          (mApplied[k] # <<>> \/ (k <= Len(mTask) /\ mTask[k] = "done"))
              => mApplied[k] = ExpectedKinds(k)
    /\ \A k \in 1..Len(mTask) :
          mTask[k] = "done" =>
              IF InSeq("filterNaN", ExpectedKinds(k))
              THEN \A r \in 1..numRows(mTable[k]) : mTable[k][1].data[r] # NaN
              ELSE numRows(mTable[k]) = 1
    /\ mCombined # <<>> =>
          /\ \A k \in 1..Len(mTask) : mTask[k] = "done"
          /\ mCombined.inputs = mTable
          /\ Len(mCombined.inputs) = Cardinality(Positionals) - 1
          /\ mApplied[Len(mApplied)] = ExpectedKinds(Cardinality(Positionals))

\* a finished run of `file --filterBands 0 file --filterNaN`
C6_Witness ==
    /\ mExit = 0
    /\ mApplied = << <<"filterBands">>, <<"filterNaN">> >>

HasOverwriteFlag ==
    \E i \in 1..Len(mTokens) : mTokens[i].kind = "option" /\ mTokens[i].name = "overwrite"

\* C7: a run without -w never replaces or modifies a file that exists at the
\* output pathname, whenever that file was created.
C7_NoOverwrite ==
    [][(~HasOverwriteFlag /\ mFs["out"] # "absent") => mFs'["out"] = mFs["out"]]_vars

\* the pathnames the tool's output is made of: the output pathname and, for
\* an unbundled SOG, the image file beside it
FinalPathnames == {"out", "sib"}

C9_Cleanup ==
    mExit = 1 => (mHandles = {} /\ mFs["tmp"] = "absent" /\ mFs["sib"] # "written")

IsGaussianSet(t) ==
    {"x", "y", "z", "scale_0", "scale_1", "scale_2", "rot_0", "rot_1", "rot_2", "rot_3",
     "f_dc_0", "f_dc_1", "f_dc_2", "opacity"} \subseteq {t[c].name : c \in 1..Len(t)}

ZValues(t, dropNaN) ==
    LET z == CHOOSE c \in 1..Len(t) : t[c].name = "z"
        kept == {r \in 1..Len(t[z].data) :
                    dropNaN => \A c \in 1..Len(t) : t[c].data[r].k = "num"}
    IN Pick(t[z].data, kept)

RECURSIVE ZConcat(_, _)
ZConcat(tables, dropNaN) ==
    IF tables = <<>> THEN <<>>
    ELSE ZValues(Head(tables), dropNaN) \o ZConcat(Tail(tables), dropNaN)

\* C11: under every interleaving of the concurrent reads, the table of input
\* k holds rows of file k only and has been processed by file k's own
\* actions only, combine starts only when every input is read and processed,
\* and the combined table holds the inputs' rows in command line input order.
C11_ConcurrentReads ==
    /\ \A k \in 1..Len(mTable) :
          mTable[k] # <<>> =>
              /\ \A r \in 1..numRows(mTable[k]) : ZValues(mTable[k], FALSE)[r] = Num(k)
              /\ mApplied[k] \in {<<>>, ExpectedKinds(k)}
              /\ mTask[k] = "done" =>
                    /\ mApplied[k] = ExpectedKinds(k)
                    /\ numRows(mTable[k]) = 0 => InSeq("filterNaN", ExpectedKinds(k))
                    /\ InSeq("filterNaN", ExpectedKinds(k)) =>
                           \A r \in 1..numRows(mTable[k]) : mTable[k][1].data[r] # NaN
    /\ mCombined # <<>> =>
          /\ \A k \in 1..Len(mTask) : mTask[k] = "done"
          /\ ZValues(mCombined.table, FALSE)
                = ZConcat(mTable, InSeq("filterNaN", ExpectedKinds(Cardinality(Positionals))))

\* the second input has been read and processed by its filterNaN while the
\* first input is still being read
C11_Witness ==
    /\ Len(mTask) = 2
    /\ mTask[1] = "open"
    /\ mTask[2] = "done"
    /\ mApplied[2] = <<"filterNaN">>

----------------------------------------------------------------------------
(* Claims about the PLY writer and reader, checked under SpecPly *)

\* C12: reading with readPly the file writePly wrote for one element
\* 'vertex' holding a table yields one element named 'vertex' whose table
\* has the same row count and the same columns in the same order, with equal
\* names, types and values in every row.
C12_PlyRoundTrip ==
    ply.pc \in {"read", "written"} =>
        /\ "error" \notin DOMAIN ply.data
        /\ Len(ply.data.elements) = 1
        /\ ply.data.elements[1].name = "vertex"
        /\ ply.data.elements[1].dataTable = ply.table

\* a table of three columns and three rows, written and read in two chunks
C12_Witness ==
    /\ ply.pc = "read"
    /\ Len(ply.table) = 3
    /\ numRows(ply.table) = MaxPlyRows
    /\ numRows(ply.table) > chunkSize
    /\ ply.data.elements[1].dataTable = ply.table

\* the comments of the comment lines of a header, in order
CommentsOf(header) ==
    LET IsComment(line) == line[1] = "comment"
        lines == SelectSeq(header, IsComment)
    IN [i \in 1..Len(lines) |-> lines[i][2]]

\* C13: when a PLY file with comment lines is read and the result is written
\* as PLY by the tool, the written header holds the same comments in the
\* same order.
C13_CommentsPreserved ==
    ply.pc = "written" =>
        CommentsOf(ply.out.header) = CommentsOf(ply.file.header)

\* the bytes the header of a file requires its body to have
RequiredBytes(file) ==
    LET header == parseHeader(file.header)
    IN Sum([e \in 1..Len(header.elements) |->
              header.elements[e].count *
              Sum([q \in 1..Len(header.elements[e].properties) |->
                     BYTES_PER_ELEMENT(getDataType(header.elements[e].properties[q].type))])])

\* C14: a PLY file whose body is shorter than its header requires is
\* rejected with an error; readPly returns no table for it.
C14_ShortBodyRejected ==
    (ply.pc = "readShort" /\ Len(ply.file.body) < RequiredBytes(ply.file)) =>
        "error" \in DOMAIN ply.data

----------------------------------------------------------------------------
(* writeSog *)

SogEntries == [i \in 1..Len(sog.files) |-> sog.files[i].name]

\* C15: writing a bundled .sog for a Gaussian table of N >= 1 rows without
\* f_rest columns succeeds (it throws nothing) and, once writeSog is over,
\* the archive lists exactly means_l.webp, means_u.webp, quats.webp,
\* scales.webp, sh0.webp and meta.json.
C15_SogBundle ==
    (isBundle(sog.outputFilename) /\ SogRows(sog.table) >= 1 /\ sogShBands(sog.table) = 0) =>
        /\ sog.pc # "threw"
        /\ sog.pc = "done" =>
              SogEntries = <<"means_l.webp", "means_u.webp", "quats.webp",
                             "scales.webp", "sh0.webp", "meta.json">>

\* a table with enough rows for kmeans to run is written as the six entries
C15_Witness ==
    /\ sog.pc = "done"
    /\ isBundle(sog.outputFilename)
    /\ 3 * SogRows(sog.table) >= codebookSize
    /\ SogEntries = <<"means_l.webp", "means_u.webp", "quats.webp",
                      "scales.webp", "sh0.webp", "meta.json">>

----------------------------------------------------------------------------
(* ZipReader *)

\* C16: for a STORE-only archive whose entries use data descriptors, list()
\* returns one entry per stored file, in archive order, with the file's name
\* and size, and readData() of an entry returns the file's bytes; whatever
\* the files' lengths and contents.
C16_ZipList ==
    (zip.pc \in {"listed", "threw"} /\ zip.useDescriptor) =>
        /\ zip.pc = "listed"
        /\ Len(zip.listed.entries) = Len(zip.files)
        /\ \A i \in 1..Len(zip.files) :
              /\ zip.listed.entries[i].name = zip.files[i].name
              /\ zip.listed.entries[i].size = Len(zip.files[i].data)
        /\ \A i \in 1..Len(zip.read) :
              /\ "error" \notin DOMAIN zip.read[i]
              /\ zip.read[i].buf = zip.files[i].data

\* the same for the archives whose descriptors the scan finds whole in the
\* first chunk read and whose data does not hold the signature bytes
ZipScanFinds(i) ==
    /\ Len(zip.files[i].data) + 16 <= chunk
    /\ \A j \in 1..(Len(zip.files[i].data) - 3) :
          SubSeq(zip.files[i].data, j, j + 3) # sigBytes

C16_Witness ==
    /\ zip.pc = "listed"
    /\ zip.useDescriptor
    /\ Len(zip.files) = 2
    /\ \A i \in 1..2 : ZipScanFinds(i) /\ Len(zip.files[i].data) > 0
    /\ Len(zip.read) = 2
    /\ \A i \in 1..2 : zip.listed.entries[i].name = zip.files[i].name
                       /\ zip.read[i] = [buf |-> zip.files[i].data]

----------------------------------------------------------------------------
(* DataTable *)

SameLengths(columns) ==
    \A i, j \in 1..Len(columns) : Len(columns[i].data) = Len(columns[j].data)

\* C17: all columns of a table have the same length after construction and
\* after every addColumn and removeColumn; the constructor throws for columns
\* of different lengths; addColumn of a column whose length is not numRows
\* throws and leaves the column list as it was.
C17_TableShape ==
    /\ dt.pc = "table" => SameLengths(dt.columns)
    /\ (dt.last.op = "new" /\ ~SameLengths(dt.args)) => dt.pc = "threw"
    /\ (dt.pc = "table" /\ dt.last.op = "addColumn" /\ Len(dt.prev) > 0
            /\ Len(dt.last.column.data) # numRows(dt.prev)) =>
          /\ dt.last.threw # ""
          /\ dt.columns = dt.prev

\* addColumn of a column of another length on a table of two columns
C17_Witness ==
    /\ dt.pc = "table"
    /\ dt.last.op = "addColumn"
    /\ Len(dt.prev) = 2
    /\ Len(dt.last.column.data) # numRows(dt.prev)
    /\ dt.last.threw = "inconsistent number of rows"

\* C18: no two columns of a table have the same name, whether the table is
\* constructed, built up by addColumn or returned by combine.
C18_UniqueNames ==
    dt.pc \in {"table", "combined"} =>
        \A i, j \in 1..Len(dt.columns) : dt.columns[i].name = dt.columns[j].name => i = j

\* combine of a table whose names are unique with a table that holds one of
\* the names with another element type
C18_Witness ==
    /\ dt.pc = "combined"
    /\ TableKeys(dt.prev) = << <<"x", "float32">> >>
    /\ TableKeys(dt.columns) = << <<"x", "float32">>, <<"x", "uint8">> >>

----------------------------------------------------------------------------
(* generateOrdering *)

\* C20: the index array generateOrdering returns has the length N of the
\* table and holds every row index of 0 .. N-1 exactly once, also when the
\* ordering of a run was given up for a non-finite extent.
C20_MortonPermutation ==
    ord.pc = "done" =>
        /\ Len(ord.result.indices) = numRows(ord.table)
        /\ \A r \in 0..(numRows(ord.table) - 1) :
              Cardinality({i \in 1..Len(ord.result.indices) : ord.result.indices[i] = r}) = 1

\* rows x = 2048, NaN, 0: the rows NaN and 0 share the code 0 and come first;
\* their run starts with NaN, so its extent is NaN and it keeps its order
C20_Witness ==
    /\ ord.pc = "done"
    /\ getColumnByName(ord.table, "x").data = <<Num(2048), NaN, Num(0)>>
    /\ getColumnByName(ord.table, "y").data = <<Num(0), Num(0), Num(0)>>
    /\ ord.result.indices = <<1, 2, 0>>

----------------------------------------------------------------------------
(* kmeans *)

\* the centroids of the table that are nearest to the point of row i
NearestCentroids(points, centroids, i) ==
    {c \in 0..(tableRows(centroids) - 1) :
        \A other \in 0..(tableRows(centroids) - 1) :
            ~RatLt(calcDistance(centroids, pointOf(points, i), other),
                   calcDistance(centroids, pointOf(points, i), c))}

\* C21: when kmeans returns {centroids, labels}, every labels[i] is the
\* index of a row of the returned centroids whose squared distance to point
\* i is the least among the returned centroids.
C21_LabelsNearest ==
    km.pc = "returned" =>
        \A i \in 0..(tableRows(km.points) - 1) :
            km.result.labels.data[i + 1] \in NearestCentroids(km.points, km.result.centroids, i)

\* kmeans returned from its loop, and every label is nearest to the
\* centroids the last assignment step used
C21_Witness ==
    /\ km.pc = "returned"
    /\ km.result.labels.type = "Uint32Array"
    /\ km.before # km.result.centroids
    /\ \A i \in 0..(tableRows(km.points) - 1) :
          km.result.labels.data[i + 1] \in NearestCentroids(km.points, km.before, i)

\* the loop of the model and the function kmeans used by cluster1d agree
KmeansAgree ==
    km.pc = "returned" =>
        LET r == kmeans(km.points, km.k, km.iterations, km.chosen)
        IN  r.centroids = km.result.centroids /\ r.labels = km.result.labels

\* C22: for N >= K, kmeans returns after exactly T iterations, each one
\* assignment step followed by one centroid update, for every iteration
\* count T passed in.
C22_ExactlyT ==
    /\ (km.pc = "returned" /\ tableRows(km.points) >= km.k) =>
          (km.assigned = km.iterations /\ km.updated = km.iterations)
    /\ km.pc \in {"assign", "converged"} => km.assigned = km.updated
    /\ km.pc = "update" => km.assigned = km.updated + 1

\* two iterations asked for, two run
C22_Witness ==
    /\ km.pc = "returned"
    /\ tableRows(km.points) >= km.k
    /\ km.iterations = 2
    /\ km.assigned = 2 /\ km.updated = 2

\* C25: in every iteration a centroid whose cluster received no point keeps
\* the value it had before the iteration, and every other centroid becomes
\* the arithmetic mean of the points assigned to it.
C25_EmptyKeeps ==
    (km.pc \in {"assign", "converged", "returned"} /\ km.updated >= 1) =>
        \A i \in 1..km.k :
            LET cluster == {p \in 1..tableRows(km.points) : km.labels[p] = i - 1}
            IN  \A c \in 1..Len(km.points) :
                    km.centroids[c][i] =
                        IF cluster = {} THEN km.before[c][i]
                        ELSE RatDiv(SumOver(km.points[c], cluster), Cardinality(cluster))

\* an iteration has left a cluster empty whose centroid was not 0, and
\* another cluster, of three points 10, with its mean
C25_Witness ==
    /\ km.pc = "converged"
    /\ \E i \in 1..km.k :
          /\ \A p \in 1..tableRows(km.points) : km.labels[p] # i - 1
          /\ km.before[1][i] # RatOf(0)
          /\ km.centroids[1][i] = RatOf(0)
    /\ \E i \in 1..km.k :
          /\ Cardinality({p \in 1..tableRows(km.points) : km.labels[p] = i - 1}) = 3
          /\ km.centroids[1][i] = RatOf(10)

----------------------------------------------------------------------------
(* The assignment backends *)

\* the labels are, for every point, a centroid at the least squared distance
NearestLabels(labels) ==
    /\ Len(labels) = tableRows(cl.points)
    /\ \A i \in 0..(tableRows(cl.points) - 1) :
          labels[i + 1] \in NearestCentroids(cl.points, cl.centroids, i)

\* C23: GpuClustering.execute writes for every point row the index of a
\* centroid nearest to it, the label of the CPU assignment up to ties, for
\* all values and every number of batches.
C23_GpuNearest ==
    cl.pc = "done" =>
        /\ NearestLabels(cl.gpu)
        /\ \A i \in 1..Len(cl.gpu) :
              calcDistance(cl.centroids, pointOf(cl.points, i - 1), cl.gpu[i])
                = calcDistance(cl.centroids, pointOf(cl.points, i - 1), cl.cpu[i])

\* two batches, a nearest centroid within 1,000,000 for every point and
\* not centroid 0 for some: the shader's labels are those of the scan
C23_Witness ==
    /\ cl.pc = "done"
    /\ cl.batch = 2
    /\ cl.gpu = cl.cpu
    /\ \E i \in 1..Len(cl.gpu) : cl.gpu[i] # 0

\* C24: generateOrdering terminates for every table, also one with many
\* rows at the same position: no call of generate recurses without end.
C24_OrderingTerminates ==
    ord.pc # "threw"

\* a recursion that ends: rows x = 2048, 1, 0 give the codes 1023, 0, 0;
\* the run (1, 0) is longer than bucketLimit, is sorted again with its own
\* extent and comes back as 0, 1
C24_Witness ==
    /\ ord.pc = "done"
    /\ getColumnByName(ord.table, "x").data = <<Num(2048), Num(1), Num(0)>>
    /\ getColumnByName(ord.table, "y").data = <<Num(0), Num(0), Num(0)>>
    /\ ord.result.indices = <<2, 1, 0>>

\* the indices stored in the nodes of a tree, one entry for every node
RECURSIVE NodeIndices(_)
NodeIndices(node) ==
    IF node = NoNode THEN <<>>
    ELSE NodeIndices(node.left) \o <<node.index>> \o NodeIndices(node.right)

\* C26: for every centroid table of K >= 1 rows and D >= 1 columns and
\* every point, findNearest returns an index at the least squared distance
\* over all K centroids, so the k-d tree assignment and the exhaustive scan
\* give the same labels up to ties; every centroid index is in exactly one
\* node of the tree.
C26_KdTreeNearest ==
    cl.pc \in {"gpu", "done"} =>
        /\ NearestLabels(cl.kd)
        /\ NearestLabels(cl.cpu)
        /\ \A i \in 1..Len(cl.kd) :
              /\ calcDistance(cl.centroids, pointOf(cl.points, i - 1), cl.kd[i])
                    = calcDistance(cl.centroids, pointOf(cl.points, i - 1), cl.cpu[i])
              /\ findNearest(KdTree(cl.centroids), pointOf(cl.points, i - 1)).distanceSqr
                    = calcDistance(cl.centroids, pointOf(cl.points, i - 1), cl.kd[i])
        /\ LET stored == NodeIndices(KdTree(cl.centroids).root)
           IN  \A c \in 0..(tableRows(cl.centroids) - 1) :
                   Cardinality({n \in 1..Len(stored) : stored[n] = c}) = 1

\* a tree of three nodes over two columns, and a point whose nearest
\* centroid is found on the far side of the root's plane
C26_Witness ==
    /\ cl.pc = "done"
    /\ tableRows(cl.centroids) = 3
    /\ Len(cl.centroids) = 2
    /\ \E i \in 1..Len(cl.kd) :
          LET point == pointOf(cl.points, i - 1)
              tree == KdTree(cl.centroids)
              near == IF RatLt(RatOf(0), RatSub(point[1], cl.centroids[1][tree.root.index + 1]))
                      THEN tree.root.right ELSE tree.root.left
          IN  /\ cl.kd[i] # tree.root.index
              /\ cl.kd[i] # near.index
              /\ cl.kd[i] \in NearestCentroids(cl.points, cl.centroids, i - 1)

----------------------------------------------------------------------------
(* writeSog: the textures *)

\* the pixels of the file of this name, if it has been written
SogFile(name) ==
    LET found == {f \in 1..Len(sog.files) : sog.files[f].name = name}
    IN  IF found = {} THEN <<>> ELSE sog.files[CHOOSE f \in found : TRUE].data

SogWritten(name) == \E f \in 1..Len(sog.files) : sog.files[f].name = name

\* C27: writeSog uses one permutation for every texture: pixel i of
\* means_l, means_u, quats, scales, sh0 (with its opacity alpha) and
\* shN_labels encodes the source row indices[i].
C27_OnePermutation ==
    \A i \in 1..Len(sog.indices) :
        LET idx == sog.indices[i] + 1
        IN  /\ \A name \in {"means_l.webp", "means_u.webp", "quats.webp"} :
                  SogWritten(name) => SogFile(name)[i] = [row |-> sog.indices[i]]
            /\ SogWritten("scales.webp") =>
                  SogFile("scales.webp")[i] =
                      <<sog.scaleLabels[1][idx], sog.scaleLabels[2][idx], sog.scaleLabels[3][idx], 255>>
            /\ SogWritten("sh0.webp") =>
                  SogFile("sh0.webp")[i] =
                      <<sog.colorLabels[1][idx], sog.colorLabels[2][idx], sog.colorLabels[3][idx],
                        [sigmoid |-> sog.table["opacity"][idx]]>>
            /\ SogWritten("shN_labels.webp") =>
                  SogFile("shN_labels.webp")[i] = labelPixel(sog.shN.labels[idx])

\* a table with f_rest columns written in the opposite order of its rows,
\* whose rows differ in their scale labels and in their shN labels
C27_Witness ==
    /\ sog.pc = "done"
    /\ sog.indices = <<1, 0>>
    /\ SogWritten("shN_labels.webp")
    /\ sog.shN.labels[1] # sog.shN.labels[2]
    /\ sog.scaleLabels[1][1] # sog.scaleLabels[1][2]
    /\ SogFile("shN_labels.webp")[1] = labelPixel(sog.shN.labels[2])

\* the entries of a codebook are in ascending order
Ascending(codebook) ==
    \A i, j \in 1..Len(codebook) : i < j => ~RatLt(codebook[j], codebook[i])

\* C28: cluster1d returns a codebook in ascending order and labels renumbered
\* with it: for every input value the codebook entry of its label is the
\* centroid kmeans assigned to it before the sort, and every label is an
\* index into the codebook that fits in one byte.
C28_SortedCodebook ==
    /\ SogWritten("scales.webp") =>
          LET nRows == SogRows(sog.table)
          IN  /\ Ascending(sog.scales)
              /\ \A c \in 1..3, r \in 1..nRows :
                    /\ sog.scaleLabels[c][r] \in 0..(Len(sog.scales) - 1)
                    /\ sog.scaleLabels[c][r] <= 255
                    /\ sog.scales[sog.scaleLabels[c][r] + 1] =
                          sog.scaleKmeans.centroids[1][sog.scaleKmeans.labels.data[(c - 1) * nRows + r] + 1]
    /\ SogWritten("sh0.webp") =>
          /\ Ascending(sog.sh0)
          /\ \A c \in 1..3, r \in 1..SogRows(sog.table) :
                sog.colorLabels[c][r] \in 0..(Len(sog.sh0) - 1)

\* kmeans returned its centroids out of order and with different values,
\* and cluster1d renumbered the labels
C28_Witness ==
    /\ SogWritten("scales.webp")
    /\ ~Ascending(sog.scaleKmeans.centroids[1])
    /\ \E p \in 1..Len(sog.scaleKmeans.labels.data) :
          sog.scaleKmeans.labels.data[p] # sog.scaleLabels[((p - 1) \div SogRows(sog.table)) + 1]
                                                          [((p - 1) % SogRows(sog.table)) + 1]

\* the quaternion packed in the four bytes at a byte offset of the rotation
\* block: the two highest bits are the index of the largest component, the
\* other three components follow in 10-bit fields, from the lowest bits for
\* the component of the highest index
SmallestThreeAt(body, blockOffset, offset) ==
    LET largest == wordBit(body, blockOffset, offset, 30) + 2 * wordBit(body, blockOffset, offset, 31)
        before(i) == Cardinality({j \in (i + 1)..3 : j # largest})
        field(i) == rotField(body, blockOffset, offset, before(i))
    IN  [i \in 1..4 |->
           IF i - 1 = largest
           THEN sqrtOf(Sum([j \in 1..4 |-> IF j - 1 # largest
                                           THEN field(j - 1).mag * field(j - 1).mag ELSE 0]))
           ELSE small(IF field(i - 1).negbit = 1 THEN -field(i - 1).mag ELSE field(i - 1).mag)]

\* C29: for a version 3 file the rotation block spans 4 * numSplats bytes,
\* the SH block starts directly after it, and the rotation stored for splat
\* i is the quaternion unpacked from the 32-bit word at byte offset 4 * i of
\* the block (2 bits of index, three fields of 9 magnitude bits and a sign
\* bit), stored as unpacked, without the conversion from a byte.
C29_SmallestThree ==
    (spz.pc \in {"splats", "done", "threw"} /\ spz.file.version = 3) =>
        /\ spz.views.rotationsByteSize = 4 * spz.file.numSplats
        /\ spz.views.shOffset = spz.views.rotationsOffset + 4 * spz.file.numSplats
        /\ spz.pc # "threw"
        /\ \A i \in 1..Len(spz.rotations) :
              spz.rotations[i] = SmallestThreeAt(spz.file.body, spz.views.rotationsOffset, 4 * (i - 1))

\* a version 3 file of two splats was read to its end: the rotation of the
\* second splat is the byte conversion of what the word at byte offset 1
\* unpacks to, and its first SH byte is taken from inside the rotation block
C29_Witness ==
    /\ spz.pc = "done"
    /\ spz.file.version = 3
    /\ spz.file.numSplats = 2
    /\ spz.file.shDegree = 1
    /\ spz.rotations[2] = [c \in 1..4 |->
                              norm(decodeSmallestThree(spz.file.body, spz.views.rotationsOffset, 1)[c])]
    /\ spz.harmonics[1][1] = spz.file.body[spz.views.rotationsOffset + 6 + 1]

\* C30: after any sequence of process actions the pipeline holds a table,
\* never null, whose columns share one row count, also when a filter
\* rejected every row; the later actions of the sequence and the combine
\* that follows run on it without an error.
C30_AlwaysATable ==
    /\ proc.pc # "threw"
    /\ ~proc.result.null
    /\ ValidTable(proc.result.table)

\* a filter rejected every row of the table, process returned null and the
\* combine with a second table threw
C30_Witness ==
    /\ proc.pc = "threw"
    /\ proc.result.null
    /\ Len(proc.actions) = 1
    /\ proc.actions = <<"filterNaN">>
    /\ proc.error = "Cannot read properties of null (reading 'columns')"

====
